---------------------------- MODULE Spec2Model ----------------------------
(***************************************************************************)
(* Model of the adaptive drill engine of language_app: the themed-lesson   *)
(* controller (services/lesson.py, routers/lesson.py), the confusion-model *)
(* update (ml/types.py, ml/service.py, ml/luce_service.py), the drill      *)
(* sampler entry point (services/drill.py), the drill router               *)
(* (routers/drill.py) and posterior persistence                            *)
(* (services/state_persistence.py).                                        *)
(***************************************************************************)
EXTENDS Integers, Sequences, FiniteSets, TLC

(***************************************************************************)
(* Program constants.                                                      *)
(***************************************************************************)
DRILLS_PER_LESSON == 10
N_TONES == 6
NUM_VOWELS == 12

(***************************************************************************)
(* Bounds of the model.                                                    *)
(***************************************************************************)
\* number of distinct shuffles of the drill plan that start_lesson may draw
NPlans == 2
\* number of distinct random tapes (outcomes of the sampling draws of a lesson)
NTapes == 2
\* calls the free lesson driver may make out of turn (a second answer for the
\* same drill, a second request for a drill that was not answered yet, a
\* second start_lesson with the same session id)
MaxExtraCalls == 1
\* incorrect learning answers the free lesson driver may give
MaxWrongAnswers == 2

\* Python None where an object is expected
None == [none |-> TRUE]

LEARNING == "learning"
REVIEW == "review"
COMPLETE == "complete"
LessonPhase == {LEARNING, REVIEW, COMPLETE}

TWO_CHOICE_1SYL == "2-choice-1syl"
FOUR_CHOICE_1SYL == "4-choice-1syl"
TWO_CHOICE_2SYL == "2-choice-2syl"
DrillMode == {TWO_CHOICE_1SYL, FOUR_CHOICE_1SYL, TWO_CHOICE_2SYL}

\* LESSON_THEMES, indexed 1..8 here (0..7 in the source)
LESSON_THEMES ==
    << << <<1, 2>>, <<1, 3>> >>,
       << <<2, 3>>, <<2, 4>> >>,
       << <<3, 4>>, <<4, 5>> >>,
       << <<5, 6>>, <<3, 6>> >>,
       << <<1, 4>>, <<1, 5>> >>,
       << <<2, 5>>, <<2, 6>> >>,
       << <<3, 5>>, <<4, 6>> >>,
       << <<1, 6>>, <<2, 3>> >> >>

SessionIds == {"s1", "s2"}
UserIds == {"u1"}

VARIABLES
    sessions,     \* LessonService._sessions: session id -> LessonState or None
    attempts,     \* the DrillAttempt table (event log), in insertion order
    catalog,      \* DrillService._words_by_sequence
    hist,         \* per session id: what the caller has observed so far
    resp,         \* the last HTTP response of the API
    user_state,   \* the UserState table: rows in insertion order
    proc,         \* per request in flight: its position and its locals
    pure          \* ML layer exercised directly: service, states, last call

vars == <<sessions, attempts, catalog, hist, resp, user_state, proc, pure>>

\* what the lesson service never touches
nonLesson == <<resp, user_state, proc, pure>>

--------------------------------------------------------------------------
(***************************************************************************)
(* Helpers                                                                 *)
(***************************************************************************)
RECURSIVE SeqMax(_)
SeqMax(s) == IF s = <<>> THEN 0
             ELSE LET m == SeqMax(Tail(s)) IN IF Head(s) > m THEN Head(s) ELSE m

Range(s) == {s[i] : i \in DOMAIN s}

\* a Python dict read by key: the empty dict, and d[k] = v
EmptyDict == [k \in {} |-> k]

DictSet(d, k, v) == [x \in (DOMAIN d) \cup {k} |-> IF x = k THEN v ELSE d[x]]

\* the elements of a finite set in a fixed order
RECURSIVE SetToSeq(_)
SetToSeq(S) ==
    IF S = {} THEN <<>>
    ELSE LET x == CHOOSE y \in S : TRUE IN <<x>> \o SetToSeq(S \ {x})

\* Python list indexing: index k of a list of length n, as a 1-based
\* position, or 0 when Python raises IndexError.  Negative indices wrap.
PyIndex(k, n) ==
    IF k >= 0 /\ k < n THEN k + 1
    ELSE IF k < 0 /\ k >= -n THEN n + k + 1
    ELSE 0

--------------------------------------------------------------------------
(***************************************************************************)
(* The problem type registry (ml/registry.py).  A problem type id is the   *)
(* sequence of its characters, so that split("_"), isdigit() and int() are *)
(* computed; "sup2" stands for the character SUPERSCRIPT TWO, a digit for  *)
(* isdigit() that int() does not accept.  The dict PROBLEM_TYPES is the    *)
(* sequence of its values in insertion order; every value is stored under  *)
(* its own problem_type_id.                                                *)
(***************************************************************************)
\* the characters of a str
Chars(s) == [i \in 1..Len(s) |-> SubSeq(s, i, i)]

\* the str of a sequence of characters
RECURSIVE Str(_)
Str(cs) == IF cs = <<>> THEN "" ELSE Head(cs) \o Str(Tail(cs))

AsciiDigits == <<"0", "1", "2", "3", "4", "5", "6", "7", "8", "9">>

\* str.split(sep)
RECURSIVE PySplit(_, _, _)
PySplit(s, sep, part) ==
    IF s = <<>> THEN <<part>>
    ELSE IF Head(s) = sep THEN <<part>> \o PySplit(Tail(s), sep, <<>>)
    ELSE PySplit(Tail(s), sep, Append(part, Head(s)))

\* characters of other scripts that Unicode classes as decimal digits (Nd):
\* "arabic3" is U+0663 (value 3), "fw1" is U+FF11 (value 1)
OtherDecimals == {"arabic3", "fw1"}

\* the value of a decimal digit character
DecimalValue(ch) ==
    IF ch = "arabic3" THEN 3
    ELSE IF ch = "fw1" THEN 1
    ELSE CHOOSE v \in 0..9 : AsciiDigits[v + 1] = ch

\* str.isdigit(): every character is a decimal digit of some script or
\* another digit character such as "sup2" (U+00B2)
PyIsDigit(s) ==
    s # <<>> /\ \A i \in DOMAIN s :
                  s[i] \in Range(AsciiDigits) \cup OtherDecimals \cup {"sup2"}

\* int(s) of a string of digits: its value, or -1 where int() raises
\* ValueError (int accepts the decimal digits of every script, not "sup2")
RECURSIVE PyInt(_, _)
PyInt(s, acc) ==
    IF s = <<>> THEN acc
    ELSE IF Head(s) \notin Range(AsciiDigits) \cup OtherDecimals THEN -1
    ELSE PyInt(Tail(s), 10 * acc + DecimalValue(Head(s)))

TONE == Chars("tone")
VOWEL == Chars("vowel")

\* make_problem_type_id: f"{drill_type}_{syllable_count}"
make_problem_type_id(drill_type, syllable_count) ==
    Chars(drill_type) \o <<"_">> \o Chars(ToString(syllable_count))

\* the ids of the startup types
tone_1 == make_problem_type_id("tone", 1)
tone_2 == make_problem_type_id("tone", 2)
vowel_1 == make_problem_type_id("vowel", 1)
vowel_2 == make_problem_type_id("vowel", 2)

ProblemTypeConfig(problem_type_id, drill_type, syllable_count, n_classes, pseudocount) ==
    [ problem_type_id |-> problem_type_id, drill_type |-> drill_type,
      syllable_count |-> syllable_count, n_classes |-> n_classes,
      pseudocount |-> pseudocount ]

\* PROBLEM_TYPES at import
PROBLEM_TYPES ==
    << ProblemTypeConfig(tone_1, "tone", 1, 6, 2),
       ProblemTypeConfig(tone_2, "tone", 2, 6, 2),
       ProblemTypeConfig(vowel_1, "vowel", 1, 12, 5),
       ProblemTypeConfig(vowel_2, "vowel", 2, 12, 5) >>

\* list(PROBLEM_TYPES.keys())
RegistryKeys(registry) == [i \in DOMAIN registry |-> registry[i].problem_type_id]

\* PROBLEM_TYPES[problem_type_id] of a key in the dict
RegistryGet(registry, problem_type_id) ==
    registry[CHOOSE i \in DOMAIN registry :
                 registry[i].problem_type_id = problem_type_id]

\* register_problem_type: PROBLEM_TYPES[config.problem_type_id] = config.
\* A key in the dict keeps its place, a new key comes last.
register_problem_type(registry, config) ==
    IF config.problem_type_id \in Range(RegistryKeys(registry))
    THEN [i \in DOMAIN registry |->
             IF registry[i].problem_type_id = config.problem_type_id
             THEN config ELSE registry[i]]
    ELSE Append(registry, config)

\* get_problem_type: the error raised or the descriptor returned, and the
\* registry afterwards
get_problem_type(registry, problem_type_id) ==
    IF problem_type_id \in Range(RegistryKeys(registry))
    THEN [raised |-> "", config |-> RegistryGet(registry, problem_type_id),
          registry |-> registry]
    ELSE LET parts == PySplit(problem_type_id, "_", <<>>)
         IN  IF Len(parts) = 2 /\ parts[1] \in {TONE, VOWEL} /\ PyIsDigit(parts[2])
             THEN LET drill_type == Str(parts[1])
                      syllable_count == PyInt(parts[2], 0)
                      config == ProblemTypeConfig(problem_type_id, drill_type,
                                    syllable_count,
                                    IF drill_type = "tone" THEN 6 ELSE 12,
                                    IF drill_type = "tone" THEN 2 ELSE 5)
                  IN  IF syllable_count < 0
                      THEN [raised |-> "ValueError", config |-> None,
                            registry |-> registry]
                      ELSE [raised |-> "", config |-> config,
                            registry |-> register_problem_type(registry, config)]
             ELSE [raised |-> "KeyError", config |-> None, registry |-> registry]

\* sorted(values, key=...): position x of the result, counted from 0, holds
\* the value with x values before it; values of equal key keep their order
StableSorted(values, keys) ==
    [ n \in 1..Len(values) |->
        values[CHOOSE x \in 1..Len(values) :
                   Cardinality({ y \in 1..Len(values) :
                       \/ keys[y] < keys[x]
                       \/ keys[y] = keys[x] /\ y < x }) = n - 1] ]

\* get_problem_types_for_drill: the descriptors of the family now in the
\* registry, sorted by syllable count
get_problem_types_for_drill(registry, drill_type) ==
    LET types == SelectSeq(registry, LAMBDA cfg : cfg.drill_type = drill_type)
    IN  StableSorted(types, [i \in 1..Len(types) |-> types[i].syllable_count])

--------------------------------------------------------------------------
(***************************************************************************)
(* Word index (DrillService._words_by_sequence): insertion-ordered entries *)
(* key -> word ids                                                         *)
(***************************************************************************)
CatalogFull ==
    << [key |-> <<1>>, words |-> <<11>>],
       [key |-> <<2>>, words |-> <<12>>],
       [key |-> <<3>>, words |-> <<13>>],
       [key |-> <<4>>, words |-> <<14>>],
       [key |-> <<5>>, words |-> <<15>>],
       [key |-> <<6>>, words |-> <<16>>],
       [key |-> <<3, 2>>, words |-> <<32>>],
       [key |-> <<1, 6>>, words |-> <<61>>] >>

WordsFor(cat, key) ==
    IF \E i \in DOMAIN cat : cat[i].key = key
    THEN cat[CHOOSE i \in DOMAIN cat : cat[i].key = key].words
    ELSE <<>>

--------------------------------------------------------------------------
(***************************************************************************)
(* Random draws.  Every call of the random module in one sampling call is  *)
(* read from a draw record d:                                              *)
(*   d.pair       random.choice(theme_pairs), an index                     *)
(*   d.coin       random.random() < 0.5                                    *)
(*   d.word       random.choice(words), taken modulo the number of words   *)
(*   d.pick       random.choice(four_set) and random.choice(keys)          *)
(*   d.shuffle    the random.shuffle of the alternatives: the draws of the *)
(*                shuffle as one number, see PyShuffle                     *)
(*   d.remaining  random.shuffle(remaining), likewise                      *)
(*                (and the shuffle of a legacy get_any_mono_syllabic_word) *)
(*   d.attempts   the attempts of the distractor loops, in order: an       *)
(*                attempt holds, per syllable, 0 for random.random() >=    *)
(*                0.7 (the syllable is kept) or r >= 1 for                 *)
(*                random.choice(other_classes) returning other_classes[r-1]*)
(*                attempts after the last one listed keep every syllable   *)
(* The draws of a lesson come from one of NTapes tapes, so that a lesson   *)
(* run is a function of its tape, its plan and its answers.                 *)
(***************************************************************************)
RECURSIVE Factorial(_)
Factorial(n) == IF n <= 1 THEN 1 ELSE n * Factorial(n - 1)

\* random.shuffle(x): for i in reversed(range(1, len(x))):
\* j = randbelow(i + 1); x[i], x[j] = x[j], x[i].  The draws j are the
\* digits of r in the factorial number system: j = (r div i!) mod (i + 1),
\* so that r in 0 .. len(x)! - 1 runs over every sequence of draws.
RECURSIVE ShuffleFrom(_, _, _)
ShuffleFrom(x, i, r) ==
    IF i < 1 THEN x
    ELSE LET j == (r \div Factorial(i)) % (i + 1)
         IN  ShuffleFrom([x EXCEPT ![i + 1] = x[j + 1], ![j + 1] = x[i + 1]],
                         i - 1, r)

PyShuffle(x, r) == ShuffleFrom(x, Len(x) - 1, r)

\* the attempts of the m-th tape position: three that differ (one changing
\* both syllables), a kept and a repeated one, a single one, and none
AttemptTape(m) ==
    LET v == (m \div 4) % 5
    IN  IF m % 4 = 0
        THEN << <<v + 1, 0>>, <<0, ((v + 1) % 5) + 1>>, <<((v + 2) % 5) + 1, v + 1>> >>
        ELSE IF m % 4 = 1
        THEN << <<0, 0>>, <<v + 1, v + 1>>, <<v + 1, v + 1>>, <<((v + 1) % 5) + 1, 0>> >>
        ELSE IF m % 4 = 2
        THEN << <<0, v + 1>> >>
        ELSE <<>>

DrawAt(k, n) ==
    [ pair      |-> ((n + k) % 2) + 1,
      coin      |-> ((n \div 2) + k) % 2 = 0,
      word      |-> n + k,
      pick      |-> ((n * k) % 4) + 1,
      shuffle   |-> 7 * n + 5 * k,
      remaining |-> 3 * n + k,
      attempts  |-> AttemptTape(n + k) ]

PyChoice(s, r) == s[(r % Len(s)) + 1]

\* other_classes = [c for c in all_classes if c != correct_cls]
OtherClasses(correct_cls, n_classes) ==
    SelectSeq([c \in 1..n_classes |-> c], LAMBDA c : c # correct_cls)

\* new_seq of one attempt: every syllable kept or redrawn on its own
NewSeq(correct_sequence, attempt, n_classes) ==
    [ i \in 1..Len(correct_sequence) |->
        IF i > Len(attempt) \/ attempt[i] = 0 THEN correct_sequence[i]
        ELSE PyChoice(OtherClasses(correct_sequence[i], n_classes), attempt[i] - 1) ]

\* the attempt that changes correct_sequence into the sequence target
AttemptFor(correct_sequence, target, n_classes) ==
    [ i \in 1..Len(correct_sequence) |->
        IF target[i] = correct_sequence[i] THEN 0
        ELSE CHOOSE r \in 1..(n_classes - 1) :
                 OtherClasses(correct_sequence[i], n_classes)[r] = target[i] ]

\* DrillService._generate_single_distractor: the first of up to 50 attempts
\* that differs from the correct sequence; if none does, the first syllable
\* moved to the next class
_generate_single_distractor(correct_sequence, d) ==
    LET tried == [k \in 1..Len(d.attempts) |->
                     NewSeq(correct_sequence, d.attempts[k], N_TONES)]
        hits  == {k \in 1..Len(tried) : k <= 50 /\ tried[k] # correct_sequence}
    IN  IF hits # {} THEN tried[CHOOSE k \in hits : \A l \in hits : k <= l]
        ELSE [correct_sequence EXCEPT ![1] = (@ % N_TONES) + 1]

\* the for loop of a distractor generator with `left` attempts to go
RECURSIVE TryDistractors(_, _, _, _, _)
TryDistractors(distractors, correct_sequence, tries, left, n_classes) ==
    IF left = 0 \/ tries = <<>> \/ Len(distractors) >= 4 THEN distractors
    ELSE LET new_seq == NewSeq(correct_sequence, Head(tries), n_classes)
         IN  TryDistractors(
                 IF new_seq # correct_sequence /\ new_seq \notin Range(distractors)
                 THEN Append(distractors, new_seq) ELSE distractors,
                 correct_sequence, Tail(tries), left - 1, n_classes)

\* the deterministic fill of _generate_distractors (its while loop)
RECURSIVE FillDistractors(_, _)
FillDistractors(distractors, correct_sequence) ==
    IF Len(distractors) >= 4 THEN distractors
    ELSE LET fallback == [i \in 1..Len(correct_sequence) |->
                             (correct_sequence[i] % N_TONES) + 1]
             ramp     == [i \in 1..Len(correct_sequence) |-> ((i - 1) % N_TONES) + 1]
         IN  IF fallback \notin Range(distractors)
             THEN FillDistractors(Append(distractors, fallback), correct_sequence)
             ELSE FillDistractors(Append(distractors, ramp), correct_sequence)

\* DrillService._generate_distractors: the correct sequence, the distinct
\* sequences up to 50 attempts find, the deterministic fill, and
\* random.shuffle(distractors)
_generate_distractors(correct_sequence, d) ==
    PyShuffle(FillDistractors(TryDistractors(<<correct_sequence>>, correct_sequence,
                                             d.attempts, 50, N_TONES),
                              correct_sequence),
              d.shuffle)

Problem(ptype, word_id, correct_sequence, alternatives) ==
    [ problem_type_id |-> ptype, word_id |-> word_id,
      correct_sequence |-> correct_sequence, alternatives |-> alternatives ]

\* [int(t) for t in key.split('-')] on the index key "-".join(str(t) ...)
\* of a tone sequence: the sequence again, except for the empty sequence of
\* a blank word, whose key "" splits into [''] and int('') raises
ParseKey(sequence) ==
    IF sequence = <<>> THEN [raised |-> "ValueError"]
    ELSE [raised |-> "", value |-> sequence]

\* DrillService._sample_fallback
_sample_fallback(cat, d) ==
    IF \E i \in DOMAIN cat : cat[i].words # <<>>
    THEN LET i == CHOOSE j \in DOMAIN cat :
                      /\ cat[j].words # <<>>
                      /\ \A l \in 1..(j - 1) : cat[l].words = <<>>
             parsed == ParseKey(cat[i].key)
         IN  IF parsed.raised # "" THEN [raised |-> parsed.raised]
             ELSE LET key == parsed.value
                  IN  Problem(make_problem_type_id("tone", Len(key)),
                              PyChoice(cat[i].words, d.word), key,
                              _generate_distractors(key, d))
    ELSE Problem(make_problem_type_id("tone", 1), 0, <<1>>, << <<1>>, <<2>> >>)

TwoSyllableKeys(cat) ==
    SelectSeq([i \in DOMAIN cat |-> cat[i].key], LAMBDA k : Len(k) = 2)

\* DrillService._sample_2_choice_multi_syllable; None when it finds no word
_sample_2_choice_multi_syllable(cat, d) ==
    LET keys == TwoSyllableKeys(cat)
    IN  IF keys = <<>> THEN None
        ELSE LET key   == PyChoice(keys, d.pick)
                 words == WordsFor(cat, key)
             IN  IF words = <<>> THEN None
                 ELSE LET distractor == _generate_single_distractor(key, d)
                      IN  Problem(make_problem_type_id("tone", 2),
                                  PyChoice(words, d.word), key,
                                  PyShuffle(<<key, distractor>>, d.shuffle))

\* LessonService._sample_2_choice_themed
_sample_2_choice_themed(theme_pairs, cat, d) ==
    LET pair   == theme_pairs[d.pair]
        first  == IF d.coin THEN pair[1] ELSE pair[2]
        other  == IF first = pair[1] THEN pair[2] ELSE pair[1]
        cls    == IF WordsFor(cat, <<first>>) # <<>> THEN first ELSE other
        words  == WordsFor(cat, <<cls>>)
    IN  IF words = <<>> THEN _sample_fallback(cat, d)
        ELSE Problem(make_problem_type_id("tone", 1), PyChoice(words, d.word),
                     <<cls>>, << <<pair[1]>>, <<pair[2]>> >>)

RemainingTones(pair) ==
    SelectSeq([i \in 1..N_TONES |-> i], LAMBDA t : t # pair[1] /\ t # pair[2])

\* LessonService._sample_4_choice_themed
_sample_4_choice_themed(theme_pairs, cat, d) ==
    LET pair      == theme_pairs[d.pair]
        remaining == PyShuffle(RemainingTones(pair), d.remaining)
        four_set  == PyShuffle(<<pair[1], pair[2], remaining[1], remaining[2]>>,
                               d.shuffle)
        picked    == four_set[d.pick]
        has(c)    == WordsFor(cat, <<c>>) # <<>>
        anyWord   == \E i \in 1..4 : has(four_set[i])
        firstWith == four_set[CHOOSE i \in 1..4 :
                        has(four_set[i]) /\ \A l \in 1..(i - 1) : ~has(four_set[l])]
        cls       == IF has(picked) THEN picked ELSE firstWith
    IN  IF ~anyWord THEN _sample_fallback(cat, d)
        ELSE Problem(make_problem_type_id("tone", 1),
                     PyChoice(WordsFor(cat, <<cls>>), d.word), <<cls>>,
                     [i \in 1..4 |-> <<four_set[i]>>])

\* candidates and candidate_keys of _sample_2_choice_2syl_themed: one entry
\* per word of every two-syllable key with a theme tone, in index order
RECURSIVE ThemedCandidates(_, _)
ThemedCandidates(cat, theme_tones) ==
    IF cat = <<>> THEN <<>>
    ELSE LET e == Head(cat)
         IN  (IF Len(e.key) = 2 /\ (e.key[1] \in theme_tones \/ e.key[2] \in theme_tones)
              THEN [i \in 1..Len(e.words) |-> [word |-> e.words[i], key |-> e.key]]
              ELSE <<>>)
             \o ThemedCandidates(Tail(cat), theme_tones)

\* LessonService._sample_2_choice_2syl_themed
_sample_2_choice_2syl_themed(theme_pairs, cat, d) ==
    LET theme_tones == {theme_pairs[i][j] : i \in 1..Len(theme_pairs), j \in 1..2}
        candidates  == ThemedCandidates(cat, theme_tones)
    IN  IF candidates = <<>>
        THEN LET p == _sample_2_choice_multi_syllable(cat, d)
             IN  IF p # None THEN p ELSE _sample_fallback(cat, d)
        ELSE LET c == PyChoice(candidates, d.pick)
                 distractor == _generate_single_distractor(c.key, d)
             IN  Problem(make_problem_type_id("tone", 2), c.word, c.key,
                         PyShuffle(<<c.key, distractor>>, d.shuffle))

\* LessonService._sample_drill_for_mode
_sample_drill_for_mode(mode, theme_pairs, cat, d) ==
    IF mode = TWO_CHOICE_1SYL THEN _sample_2_choice_themed(theme_pairs, cat, d)
    ELSE IF mode = FOUR_CHOICE_1SYL THEN _sample_4_choice_themed(theme_pairs, cat, d)
    ELSE _sample_2_choice_2syl_themed(theme_pairs, cat, d)

--------------------------------------------------------------------------
(***************************************************************************)
(* Lesson controller (services/lesson.py)                                  *)
(***************************************************************************)
\* LessonService._generate_drill_sequence: a shuffle of 6x 2-choice-1syl,
\* 2x 4-choice-1syl, 2x 2-choice-2syl
BasePlan ==
    <<TWO_CHOICE_1SYL, TWO_CHOICE_1SYL, TWO_CHOICE_1SYL, TWO_CHOICE_1SYL,
      TWO_CHOICE_1SYL, TWO_CHOICE_1SYL, FOUR_CHOICE_1SYL, FOUR_CHOICE_1SYL,
      TWO_CHOICE_2SYL, TWO_CHOICE_2SYL>>

_generate_drill_sequence(r) == PyShuffle(BasePlan, r)

\* the draws of the shuffles of a run: they give the plans
\* 2c1 2c1 2c1 4c1 4c1 2c2 2c2 2c1 2c1 2c1,
\* 4c1 4c1 2c2 2c2 2c1 2c1 2c1 2c1 2c1 2c1,
\* 4c1 2c2 2c1 2c1 2c1 2c1 2c1 2c1 2c2 4c1 and
\* 4c1 2c2 2c2 4c1 2c1 2c1 2c1 2c1 2c1 2c1
PlanDraws == <<50532, 53138, 2420225, 53149>>

LuceMLService(prior) == [cls |-> "LuceMLService", prior |-> prior]

RECURSIVE SeqSum(_)
SeqSum(s) == IF s = <<>> THEN 0 ELSE Head(s) + SeqSum(Tail(s))

\* the first class of every sequence: [alt[0] for alt in alternatives]
FirstClasses(seqs) == [k \in 1..Len(seqs) |-> seqs[k][1]]

(***************************************************************************)
(* Python floats.  A float is an IEEE-754 double: neg for the sign, m for  *)
(* the 53-bit significand (empty for zero) and e for the exponent, its     *)
(* value being m * 2^e.  The significand is a natural number written in    *)
(* base 2^15, least significant digit first.  Every operation gives the    *)
(* exact result rounded to the nearest double, ties to even; x ** 2 is     *)
(* taken as the rounded square.                                            *)
(***************************************************************************)
LimbBase == 2 ^ 15

RECURSIVE Pow2(_)
Pow2(k) == IF k = 0 THEN 1 ELSE 2 * Pow2(k - 1)

RECURSIVE BnNorm(_)
BnNorm(a) ==
    IF a = <<>> THEN <<>>
    ELSE IF a[Len(a)] = 0 THEN BnNorm(SubSeq(a, 1, Len(a) - 1)) ELSE a

RECURSIVE BnFromInt(_)
BnFromInt(n) == IF n = 0 THEN <<>> ELSE <<n % LimbBase>> \o BnFromInt(n \div LimbBase)

BnHead(a) == IF a = <<>> THEN 0 ELSE a[1]
BnTail(a) == IF a = <<>> THEN <<>> ELSE Tail(a)

RECURSIVE BnAddC(_, _, _)
BnAddC(a, b, c) ==
    IF a = <<>> /\ b = <<>> THEN (IF c = 0 THEN <<>> ELSE <<c>>)
    ELSE <<(BnHead(a) + BnHead(b) + c) % LimbBase>>
             \o BnAddC(BnTail(a), BnTail(b), (BnHead(a) + BnHead(b) + c) \div LimbBase)
BnAdd(a, b) == BnAddC(a, b, 0)

\* a - b - c for a >= b + c
RECURSIVE BnSubC(_, _, _)
BnSubC(a, b, c) ==
    IF a = <<>> THEN <<>>
    ELSE <<(a[1] - BnHead(b) - c) % LimbBase>>
             \o BnSubC(Tail(a), BnTail(b), IF a[1] - BnHead(b) - c < 0 THEN 1 ELSE 0)
BnSub(a, b) == BnNorm(BnSubC(a, b, 0))

\* -1, 0 or 1 as a < b, a = b or a > b
BnCmp(a, b) ==
    IF Len(a) # Len(b) THEN (IF Len(a) < Len(b) THEN -1 ELSE 1)
    ELSE LET d == {i \in 1..Len(a) : a[i] # b[i]}
         IN  IF d = {} THEN 0
             ELSE IF \E t \in d : (\A j \in d : j <= t) /\ a[t] < b[t] THEN -1 ELSE 1

RECURSIVE BnMulSmall(_, _, _)
BnMulSmall(a, k, c) ==
    IF a = <<>> THEN (IF c = 0 THEN <<>> ELSE <<c>>)
    ELSE <<(a[1] * k + c) % LimbBase>>
             \o BnMulSmall(Tail(a), k, (a[1] * k + c) \div LimbBase)

RECURSIVE BnMul(_, _)
BnMul(a, b) ==
    IF a = <<>> \/ b = <<>> THEN <<>>
    ELSE IF Len(b) = 1 THEN BnNorm(BnMulSmall(a, b[1], 0))
    ELSE BnAdd(BnMulSmall(a, b[1], 0), <<0>> \o BnMul(a, Tail(b)))

\* a * 2^k and a \div 2^k
BnShl(a, k) ==
    IF a = <<>> THEN <<>>
    ELSE [i \in 1..(k \div 15) |-> 0] \o BnMulSmall(a, Pow2(k % 15), 0)
BnShrLimbs(d, r) ==
    BnNorm([i \in 1..Len(d) |->
               (d[i] \div Pow2(r))
               + (IF i < Len(d) THEN (d[i + 1] % Pow2(r)) * Pow2(15 - r) ELSE 0)])
BnShr(a, k) == BnShrLimbs(SubSeq(a, (k \div 15) + 1, Len(a)), k % 15)

RECURSIVE IntBitLen(_)
IntBitLen(n) == IF n = 0 THEN 0 ELSE 1 + IntBitLen(n \div 2)
BnBitLen(a) == IF a = <<>> THEN 0 ELSE 15 * (Len(a) - 1) + IntBitLen(a[Len(a)])

\* bit i of a, and whether one of the bits below bit n is set
BnBit(a, i) ==
    IF i \div 15 >= Len(a) THEN 0 ELSE (a[(i \div 15) + 1] \div Pow2(i % 15)) % 2
BnLowNonzero(a, n) ==
    \/ \E i \in 1..Len(a) : i <= n \div 15 /\ a[i] # 0
    \/ n \div 15 < Len(a) /\ a[(n \div 15) + 1] % Pow2(n % 15) # 0

Double(neg, m, e) == [neg |-> neg, m |-> m, e |-> e]
DoubleZero == Double(FALSE, <<>>, 0)

\* The operations on floats go through one operator, Float, that is given
\* the name of the operation and the tuple of its arguments.
RECURSIVE Float(_, _)
DoubleRound(neg, M, e, sticky) == Float("DoubleRound", <<neg, M, e, sticky>>)
DoubleOf(n) == Float("DoubleOf", <<n>>)
DoubleMul(x, y) == Float("DoubleMul", <<x, y>>)
DoubleDiv(x, y) == Float("DoubleDiv", <<x, y>>)
DoubleAdd(x, y) == Float("DoubleAdd", <<x, y>>)

\* the double nearest to (-1)^neg * M * 2^e, where sticky tells that the
\* exact value lies above M * 2^e by less than 2^e
DoubleCarry(neg, q, e) ==
    IF BnBitLen(q) > 53 THEN Double(neg, BnShr(q, 1), e + 1) ELSE Double(neg, q, e)
DoubleRoundAt(neg, M, e, sticky, k) ==
    IF k <= 0 THEN Double(neg, BnShl(M, 0 - k), e + k)
    ELSE IF /\ BnBit(M, k - 1) = 1
            /\ (sticky \/ BnLowNonzero(M, k - 1) \/ BnBit(M, k) = 1)
    THEN DoubleCarry(neg, BnAdd(BnShr(M, k), <<1>>), e + k)
    ELSE Double(neg, BnShr(M, k), e + k)
DoubleRoundBody(neg, M, e, sticky) ==
    IF M = <<>> THEN DoubleZero ELSE DoubleRoundAt(neg, M, e, sticky, BnBitLen(M) - 53)

\* float(n) of an int
DoubleOfBody(n) == DoubleRound(n < 0, BnFromInt(IF n < 0 THEN 0 - n ELSE n), 0, FALSE)
DoubleNeg(x) == IF x.m = <<>> THEN x ELSE Double(~x.neg, x.m, x.e)
DoubleMulBody(x, y) == DoubleRound(x.neg # y.neg, BnMul(x.m, y.m), x.e + y.e, FALSE)
DoubleSquare(x) == DoubleMul(x, x)

\* a natural number below 2^30 as an integer
BnToInt(a) ==
    IF a = <<>> THEN 0 ELSE IF Len(a) = 1 THEN a[1] ELSE a[1] + a[2] * LimbBase
\* the next digit of a quotient by long division, for a remainder r < d:
\* <<q, the remainder>> with r * 2^15 = q * d + the remainder.  The leading
\* bits top of r * 2^15 and low of d bound q.
DivFits(shifted, d, q) == BnCmp(BnNorm(BnMulSmall(d, q, 0)), shifted) <= 0
DivDigitOf(shifted, d, q) == <<q, BnSub(shifted, BnNorm(BnMulSmall(d, q, 0)))>>
DivDigitIn(shifted, d, top, low) ==
    DivDigitOf(shifted, d,
        CHOOSE q \in (top \div (low + 1))..((top + 1) \div low) :
            DivFits(shifted, d, q) /\ ~DivFits(shifted, d, q + 1))
DivDigitAt(shifted, d, cut) ==
    DivDigitIn(shifted, d, BnToInt(BnShr(shifted, cut)), BnToInt(BnShr(d, cut)))
DivDigit(r, d) ==
    DivDigitAt(IF r = <<>> THEN <<>> ELSE <<0>> \o r, d,
               IF BnBitLen(d) > 15 THEN BnBitLen(d) - 15 ELSE 0)
\* n more digits of a quotient, put before the digits found so far:
\* <<the digits, the remainder>>
RECURSIVE DivDigits(_, _, _, _)
DivNext(digits, digit, d, n) == DivDigits(<<digit[1]>> \o digits, digit[2], d, n - 1)
DivDigits(digits, r, d, n) ==
    IF r = <<>> THEN << [i \in 1..n |-> 0] \o digits, <<>> >>
    ELSE IF n = 0 THEN <<digits, r>>
    ELSE DivNext(digits, DivDigit(r, d), d, n)
DoubleQuotient(neg, q0, digits, e) ==
    DoubleRound(neg, BnNorm(digits[1] \o <<q0>>), e, digits[2] # <<>>)
\* x / y for y # 0
DoubleDivBody(x, y) ==
    IF x.m = <<>> THEN DoubleZero
    ELSE IF BnCmp(x.m, y.m) >= 0
    THEN DoubleQuotient(x.neg # y.neg, 1, DivDigits(<<>>, BnSub(x.m, y.m), y.m, 4),
                        x.e - y.e - 60)
    ELSE DoubleQuotient(x.neg # y.neg, 0, DivDigits(<<>>, x.m, y.m, 4), x.e - y.e - 60)

DoubleAddAligned(x, y, Mx, My, e) ==
    IF x.neg = y.neg THEN DoubleRound(x.neg, BnAdd(Mx, My), e, FALSE)
    ELSE IF BnCmp(Mx, My) = 0 THEN DoubleZero
    ELSE IF BnCmp(Mx, My) > 0 THEN DoubleRound(x.neg, BnSub(Mx, My), e, FALSE)
    ELSE DoubleRound(y.neg, BnSub(My, Mx), e, FALSE)
DoubleAddBody(x, y) ==
    IF x.m = <<>> THEN y
    ELSE IF y.m = <<>> THEN x
    ELSE IF x.e <= y.e THEN DoubleAddAligned(x, y, x.m, BnShl(y.m, y.e - x.e), x.e)
    ELSE DoubleAddAligned(x, y, BnShl(x.m, x.e - y.e), y.m, y.e)
DoubleSub(x, y) == DoubleAdd(x, DoubleNeg(y))
DoubleNegative(d) == d.m # <<>> /\ d.neg
\* x < y
DoubleLess(x, y) == DoubleNegative(DoubleSub(x, y))
\* a literal p/q such as 0.80: the double nearest to it
DoubleFrac(p) == DoubleDiv(DoubleOf(p[1]), DoubleOf(p[2]))

(***************************************************************************)
(* Luce predictions and the difficulty tier.  Probabilities are kept as    *)
(* exact fractions <<numerator, denominator>>; where a comparison of two   *)
(* exact values is a tie, the doubles of the code decide it.               *)
(***************************************************************************)
PAIR_MASTERY_THRESHOLD == <<4, 5>>
FOUR_CHOICE_MASTERY_THRESHOLD == <<9, 10>>

FracLess(p, q) == p[1] * q[2] < q[1] * p[2]

\* getattr(state, "prior", self.prior)
PriorOf(self, state) == IF "prior" \in DOMAIN state THEN state.prior ELSE self.prior

\* LuceMLService.get_success_distribution on a state held by value: the
\* Beta with alpha = p_correct * effective_n, beta = (1 - p_correct) *
\* effective_n, given by p_correct and effective_n; strengths[0] /
\* total_strength raises when no class of the problem has any strength
LuceMLService_get_success_distribution(self, problem, state) ==
    IF \/ problem.correct_sequence = <<>>
       \/ \E k \in 1..Len(problem.alternatives) : problem.alternatives[k] = <<>>
    THEN [raised |-> "IndexError"]
    ELSE LET prior == PriorOf(self, state)
             correct_class == problem.correct_sequence[1]
             all_classes == <<correct_class>> \o FirstClasses(problem.alternatives)
             i == PyIndex(correct_class - 1, Len(state.counts))
         IN  IF i = 0 \/ \E k \in 1..Len(all_classes) :
                             PyIndex(all_classes[k] - 1, Len(state.counts[i])) = 0
             THEN [raised |-> "IndexError"]
             ELSE LET row == state.counts[i]
                      strengths == [k \in 1..Len(all_classes) |->
                                       row[PyIndex(all_classes[k] - 1, Len(row))] + prior]
                      total_strength == SeqSum(strengths)
                      n_obs == SeqSum(row)
                  IN  IF total_strength = 0 THEN [raised |-> "ZeroDivisionError"]
                      ELSE [ raised |-> "",
                             p_correct |-> <<strengths[1], total_strength>>,
                             effective_n |-> Len(all_classes) * prior + n_obs ]

\* BetaParams.mean of a Beta built as above: alpha / (alpha + beta)
BetaMean(beta) == beta.p_correct

\* the synthetic two-choice problem of get_all_pair_stats
PairProblem(problem_type_id, correct, other) ==
    Problem(problem_type_id, 0, <<correct>>, << <<other>> >>)

\* the first error in a sequence of results, "" if there is none
FirstRaised(results) ==
    IF \A k \in DOMAIN results : results[k].raised = "" THEN ""
    ELSE results[CHOOSE k \in DOMAIN results :
                     /\ results[k].raised # ""
                     /\ \A l \in 1..(k - 1) : results[l].raised = ""].raised

\* a Beta of get_success_distribution without variance: alpha = 0 or beta = 0
BetaCertain(beta) == beta.p_correct[1] = 0 \/ beta.p_correct[1] = beta.p_correct[2]

\* beta_mixture_approx(..., w1 = 0.5), its mean.  var_mix is 0 when both
\* components are the same point mass, and nu = mu_mix (1 - mu_mix) /
\* var_mix - 1 divides by it.  Otherwise the result has the mean mu_mix =
\* (mu1 + mu2) / 2: nu is positive, or 0 for a point mass at 0 mixed with
\* one at 1, where the Beta(1, 1) returned has the mean 1/2 = mu_mix.
beta_mixture_approx_mean(beta1, beta2) ==
    LET mu1 == beta1.p_correct
        mu2 == beta2.p_correct
    IN  IF BetaCertain(beta1) /\ BetaCertain(beta2) /\ mu1[1] * mu2[2] = mu2[1] * mu1[2]
        THEN [raised |-> "ZeroDivisionError"]
        ELSE [raised |-> "",
              mean |-> <<mu1[1] * mu2[2] + mu2[1] * mu1[2], 2 * mu1[2] * mu2[2]>>]

\* unordered pairs (a, b), a < b, of the classes 1..n
AllPairs(n) == {pr \in (1..n) \X (1..n) : pr[1] < pr[2]}

\* the pairs in the order of the loops over i and j
PairListOf(n) ==
    SelectSeq([k \in 1..(n * n) |-> <<((k - 1) \div n) + 1, ((k - 1) % n) + 1>>],
              LAMBDA pr : pr[1] < pr[2])

\* LuceMLService.get_all_pair_stats on the descriptor get_problem_type
\* returned: batch_success_distribution over both directions of every
\* pair, then the mixture of every pair; the first error, or the mean of
\* every pair's mixture
PairStatsOf(self, config, state) ==
    LET pairs == PairListOf(config.n_classes)
        betas == [k \in 1..(2 * Len(pairs)) |->
                     LET pr == pairs[(k + 1) \div 2]
                     IN  LuceMLService_get_success_distribution(self,
                             IF k % 2 = 1
                             THEN PairProblem(config.problem_type_id, pr[1], pr[2])
                             ELSE PairProblem(config.problem_type_id, pr[2], pr[1]),
                             state)]
        batch == FirstRaised(betas)
        mixes == [k \in 1..Len(pairs) |->
                     beta_mixture_approx_mean(betas[2 * k - 1], betas[2 * k])]
    IN  IF batch # "" THEN [raised |-> batch, stats |-> <<>>]
        ELSE IF FirstRaised(mixes) # ""
        THEN [raised |-> FirstRaised(mixes), stats |-> <<>>]
        ELSE [raised |-> "",
              stats |-> [pr \in AllPairs(config.n_classes) |->
                            mixes[CHOOSE k \in 1..Len(pairs) : pairs[k] = pr].mean]]

\* LuceMLService.get_all_pair_stats: config = get_problem_type(...) comes
\* first; the error raised or the dict, and the registry afterwards
LuceMLService_get_all_pair_stats(self, registry, problem_type_id, state) ==
    LET looked == get_problem_type(registry, problem_type_id)
        result == IF looked.raised # "" THEN [raised |-> looked.raised, stats |-> <<>>]
                  ELSE PairStatsOf(self, looked.config, state)
    IN  [ raised |-> result.raised, registry |-> looked.registry,
          n_classes |-> IF looked.raised # "" THEN 0 ELSE looked.config.n_classes,
          stats |-> result.stats ]

(***************************************************************************)
(* The doubles of get_all_pair_stats.  A double lies within a few units in *)
(* the last place of the exact value it rounds, and two exact values of    *)
(* this section that differ do so by far more: they compare as their       *)
(* doubles do.  Where two exact values are equal, the doubles, computed    *)
(* operation by operation as the code computes them, decide.               *)
(***************************************************************************)
DoubleOne == DoubleOf(1)
\* the literal 0.5, also the default w1 of beta_mixture_approx and w2 = 1 - w1
DoubleHalf == DoubleFrac(<<1, 2>>)

\* BetaParams(alpha=p_correct * effective_n, beta=(1 - p_correct) * effective_n)
BetaParamsDouble(p_correct, effective_n) ==
    [ alpha |-> DoubleMul(p_correct, effective_n),
      beta |-> DoubleMul(DoubleSub(DoubleOne, p_correct), effective_n) ]

\* get_success_distribution: p_correct = strengths[0] / total_strength
SuccessDistributionDouble(beta) ==
    BetaParamsDouble(DoubleDiv(DoubleOf(beta.p_correct[1]), DoubleOf(beta.p_correct[2])),
                     DoubleOf(beta.effective_n))

\* BetaParams.mean: alpha / (alpha + beta)
BetaMeanDouble(beta) == DoubleDiv(beta.alpha, DoubleAdd(beta.alpha, beta.beta))

\* beta_mixture_approx: var = (a * b) / (n**2 * (n + 1)) with n = a + b
BetaVarianceAt(alpha, beta, n) ==
    DoubleDiv(DoubleMul(alpha, beta),
              DoubleMul(DoubleSquare(n), DoubleAdd(n, DoubleOne)))
BetaVarianceDouble(beta) ==
    BetaVarianceAt(beta.alpha, beta.beta, DoubleAdd(beta.alpha, beta.beta))

\* beta_mixture_approx from nu on: Beta(1, 1) if nu <= 0
MixtureNuDouble(mu_mix, nu) ==
    IF nu.m = <<>> \/ nu.neg
    THEN [alpha |-> DoubleOne, beta |-> DoubleOne]
    ELSE [alpha |-> DoubleMul(mu_mix, nu),
          beta |-> DoubleMul(DoubleSub(DoubleOne, mu_mix), nu)]
\* nu = mu_mix * (1 - mu_mix) / var_mix - 1
MixtureParamsDouble(mu_mix, var_mix) == Float("MixtureParamsDouble", <<mu_mix, var_mix>>)
MixtureParamsDoubleBody(mu_mix, var_mix) ==
    MixtureNuDouble(mu_mix,
        DoubleSub(DoubleDiv(DoubleMul(mu_mix, DoubleSub(DoubleOne, mu_mix)), var_mix),
                  DoubleOne))
\* mu_mix = w1 * mu1 + w2 * mu2,
\* var_mix = w1 * var1 + w2 * var2 + w1 * w2 * (mu1 - mu2) ** 2
MixtureMomentsDouble(mu1, mu2, var1, var2) == Float("MixtureMomentsDouble", <<mu1, mu2, var1, var2>>)
MixtureMomentsDoubleBody(mu1, mu2, var1, var2) ==
    MixtureParamsDouble(
        DoubleAdd(DoubleMul(DoubleHalf, mu1), DoubleMul(DoubleHalf, mu2)),
        DoubleAdd(DoubleAdd(DoubleMul(DoubleHalf, var1), DoubleMul(DoubleHalf, var2)),
                  DoubleMul(DoubleMul(DoubleHalf, DoubleHalf),
                            DoubleSquare(DoubleSub(mu1, mu2)))))
\* beta_mixture_approx in doubles, for a pair whose mixture did not raise
\* (var_mix is not 0, see beta_mixture_approx_mean)
beta_mixture_approx_double(beta1, beta2) == Float("beta_mixture_approx_double", <<beta1, beta2>>)
beta_mixture_approx_doubleBody(beta1, beta2) ==
    MixtureMomentsDouble(BetaMeanDouble(beta1), BetaMeanDouble(beta2),
                         BetaVarianceDouble(beta1), BetaVarianceDouble(beta2))

\* the two Betas get_all_pair_stats mixes for the pair pr, and the mean of
\* the BetaParams it stores for the pair
PairBetas(self, problem_type_id, state, pr) ==
    << LuceMLService_get_success_distribution(
           self, PairProblem(problem_type_id, pr[1], pr[2]), state),
       LuceMLService_get_success_distribution(
           self, PairProblem(problem_type_id, pr[2], pr[1]), state) >>
PairMeanDouble(betas) ==
    BetaMeanDouble(beta_mixture_approx_double(SuccessDistributionDouble(betas[1]),
                                              SuccessDistributionDouble(betas[2])))

FracEqual(p, q) == p[1] * q[2] = q[1] * p[2]

\* pair_stats[pr].mean < threshold, mean being the exact value of the mean
PairMeanBelow(self, problem_type_id, state, pr, mean, threshold) == Float("PairMeanBelow", <<self, problem_type_id, state, pr, mean, threshold>>)
PairMeanBelowBody(self, problem_type_id, state, pr, mean, threshold) ==
    IF ~FracEqual(mean, threshold) THEN FracLess(mean, threshold)
    ELSE DoubleLess(PairMeanDouble(PairBetas(self, problem_type_id, state, pr)),
                    DoubleFrac(threshold))

\* BetaParams.mean < threshold for the Beta of get_success_distribution
SuccessMeanBelow(beta, threshold) == Float("SuccessMeanBelow", <<beta, threshold>>)
SuccessMeanBelowBody(beta, threshold) ==
    IF ~FracEqual(beta.p_correct, threshold) THEN FracLess(beta.p_correct, threshold)
    ELSE DoubleLess(BetaMeanDouble(SuccessDistributionDouble(beta)),
                    DoubleFrac(threshold))

(***************************************************************************)
(* ConfusionMLService predictions (ml/service.py).  The matrix is a numpy  *)
(* array of doubles there: an index error is an IndexError, and 0 / 0 is   *)
(* nan, which no operation after it raises on and which is below nothing.  *)
(***************************************************************************)
\* max(x, 0.1)
FloorTenth(x) == IF FracLess(x, <<1, 10>>) THEN <<1, 10>> ELSE x

\* BetaParams(alpha=max(p * n, 0.1), beta=max((1 - p) * n, 0.1)) for the
\* exact p and n, with its mean alpha / (alpha + beta); nan when p is 0 / 0.
\* cells keeps the counts p and n were computed from.
ConfusionBeta(kind, cells, p, n) ==
    IF p[2] = 0 THEN [raised |-> "", nan |-> TRUE, kind |-> kind, cells |-> cells]
    ELSE LET alpha == FloorTenth(<<p[1] * n[1], p[2] * n[2]>>)
             beta  == FloorTenth(<<(p[2] - p[1]) * n[1], p[2] * n[2]>>)
         IN  [ raised |-> "", nan |-> FALSE, kind |-> kind, cells |-> cells,
               alpha |-> alpha, beta |-> beta,
               mean |-> <<alpha[1] * beta[2], alpha[1] * beta[2] + beta[1] * alpha[2]>> ]

\* ConfusionMLService.get_success_distribution on a state held by value:
\* config = get_problem_type(problem.problem_type_id) comes first.
\* correct_prob = row[correct] / total_prob, total_prob over [correct_class]
\* + alt_classes; effective_n = sum(row) / config.n_classes
ConfusionMLService_get_success_distribution(registry, problem, state) ==
    LET looked == get_problem_type(registry, problem.problem_type_id)
    IN  IF looked.raised # ""
        THEN [raised |-> looked.raised, registry |-> looked.registry]
        ELSE IF \/ problem.correct_sequence = <<>>
                \/ \E k \in 1..Len(problem.alternatives) : problem.alternatives[k] = <<>>
        THEN [raised |-> "IndexError", registry |-> looked.registry]
        ELSE LET correct_class == problem.correct_sequence[1]
                 all_classes == <<correct_class>> \o FirstClasses(problem.alternatives)
                 i == PyIndex(correct_class - 1, Len(state.counts))
             IN  IF i = 0 \/ \E k \in 1..Len(all_classes) :
                                 PyIndex(all_classes[k] - 1, Len(state.counts[i])) = 0
                 THEN [raised |-> "IndexError", registry |-> looked.registry]
                 ELSE LET row == state.counts[i]
                          alt_probs == [k \in 1..Len(all_classes) |->
                                           row[PyIndex(all_classes[k] - 1, Len(row))]]
                          total_prob == SeqSum(alt_probs)
                          cells == <<alt_probs[1], total_prob, SeqSum(row),
                                     looked.config.n_classes>>
                      IN  ConfusionBeta("success", cells, <<cells[1], cells[2]>>,
                                        <<cells[3], cells[4]>>)
                              @@ [registry |-> looked.registry]

\* the Beta of the pair (a, b) in ConfusionMLService.get_all_pair_stats:
\* avg_success = (p_correct_given_i + p_correct_given_j) / 2 and
\* n_obs = (row_i[i] + row_i[j] + row_j[i] + row_j[j]) / 2
ConfusionPairBeta(counts, a, b) ==
    LET ii == counts[a][a]
        ij == counts[a][b]
        ji == counts[b][a]
        jj == counts[b][b]
    IN  ConfusionBeta("pair", <<ii, ij, ji, jj>>,
                      <<ii * (ji + jj) + jj * (ii + ij), 2 * (ii + ij) * (ji + jj)>>,
                      <<ii + ij + ji + jj, 2>>)

\* ConfusionMLService.get_all_pair_stats: config = get_problem_type(...)
\* comes first; counts[i] and row[j] for i, j < config.n_classes raise on a
\* smaller matrix
ConfusionMLService_get_all_pair_stats(registry, problem_type_id, state) ==
    LET looked == get_problem_type(registry, problem_type_id)
        n == IF looked.raised # "" THEN 0 ELSE looked.config.n_classes
        raised == IF looked.raised # "" THEN looked.raised
                  ELSE IF n >= 2 /\ (Len(state.counts) < n \/ Len(state.counts[1]) < n)
                  THEN "IndexError"
                  ELSE ""
    IN  [ raised |-> raised, registry |-> looked.registry, n_classes |-> n,
          stats |-> IF raised # "" THEN <<>>
                    ELSE [pr \in AllPairs(n) |->
                             ConfusionPairBeta(state.counts, pr[1], pr[2])] ]

\* the doubles of a ConfusionBeta that is not nan: its mean
ConfusionProbDouble(beta) ==
    IF beta.kind = "success"
    THEN DoubleDiv(DoubleOf(beta.cells[1]), DoubleOf(beta.cells[2]))
    ELSE DoubleDiv(DoubleAdd(DoubleDiv(DoubleOf(beta.cells[1]),
                                       DoubleOf(beta.cells[1] + beta.cells[2])),
                             DoubleDiv(DoubleOf(beta.cells[4]),
                                       DoubleOf(beta.cells[3] + beta.cells[4]))),
                   DoubleOf(2))
ConfusionSizeDouble(beta) ==
    IF beta.kind = "success"
    THEN DoubleDiv(DoubleOf(beta.cells[3]), DoubleOf(beta.cells[4]))
    ELSE DoubleDiv(DoubleOf(beta.cells[1] + beta.cells[2] + beta.cells[3]
                            + beta.cells[4]), DoubleOf(2))
DoubleFloorTenth(x) ==
    IF DoubleLess(x, DoubleFrac(<<1, 10>>)) THEN DoubleFrac(<<1, 10>>) ELSE x
ConfusionMeanOf(alpha, beta) == DoubleDiv(alpha, DoubleAdd(alpha, beta))
ConfusionMeanAt(p, n) ==
    ConfusionMeanOf(DoubleFloorTenth(DoubleMul(p, n)),
                    DoubleFloorTenth(DoubleMul(DoubleSub(DoubleOne, p), n)))
ConfusionMeanDouble(beta) ==
    ConfusionMeanAt(ConfusionProbDouble(beta), ConfusionSizeDouble(beta))

\* beta.mean < threshold for a Beta of ConfusionMLService
ConfusionMeanBelow(beta, threshold) == Float("ConfusionMeanBelow", <<beta, threshold>>)
ConfusionMeanBelowBody(beta, threshold) ==
    IF beta.nan THEN FALSE
    ELSE IF ~FracEqual(beta.mean, threshold) THEN FracLess(beta.mean, threshold)
    ELSE DoubleLess(ConfusionMeanDouble(beta), DoubleFrac(threshold))

(***************************************************************************)
(* The difficulty tier of DrillService, from self.ml                       *)
(***************************************************************************)
\* the service a DrillService holds (self.ml), by class
ml_get_all_pair_stats(ml, registry, problem_type_id, state) ==
    IF ml.cls = "LuceMLService"
    THEN LuceMLService_get_all_pair_stats(ml, registry, problem_type_id, state)
    ELSE ConfusionMLService_get_all_pair_stats(registry, problem_type_id, state)

ml_get_success_distribution(ml, registry, problem, state) ==
    IF ml.cls = "LuceMLService"
    THEN LuceMLService_get_success_distribution(ml, problem, state)
             @@ [registry |-> registry]
    ELSE ConfusionMLService_get_success_distribution(registry, problem, state)

\* pair_stats[pr].mean < threshold
PairStatBelow(ml, problem_type_id, state, pr, stat, threshold) ==
    IF ml.cls = "LuceMLService"
    THEN PairMeanBelow(ml, problem_type_id, state, pr, stat, threshold)
    ELSE ConfusionMeanBelow(stat, threshold)

\* beta.mean < threshold for the result of get_success_distribution
SuccessStatBelow(ml, beta, threshold) ==
    IF ml.cls = "LuceMLService" THEN SuccessMeanBelow(beta, threshold)
    ELSE ConfusionMeanBelow(beta, threshold)

\* the pairs in the order of the pair_stats dict
PairList == PairListOf(N_TONES)

\* DrillService._get_all_four_choice_sets as the list the loops build: by
\* the excluded pair (exclude1, exclude2) in ascending order
FourSetList ==
    [ k \in 1..Len(PairList) |->
        SelectSeq([t \in 1..N_TONES |-> t],
                  LAMBDA t : t # PairList[k][1] /\ t # PairList[k][2]) ]

\* DrillService._get_all_four_choice_sets: the 15 ascending four-class lists
_get_all_four_choice_sets ==
    { s \in [1..4 -> 1..N_TONES] : \A k \in 1..3 : s[k] < s[k + 1] }

\* the dummy problem of the tier check: alternatives=[[c] for c in s]
FourChoiceProblem(problem_type_id, correct_class, s) ==
    Problem(problem_type_id, 0, <<correct_class>>, [k \in 1..4 |-> <<s[k]>>])

\* the calls of get_success_distribution the loops of _get_difficulty_level
\* make over the sets and the classes of each set, call i being class
\* ((i - 1) % 4) + 1 of set ((i - 1) div 4) + 1
FourChoiceCalls(ml, registry, state) ==
    [ i \in 1..(4 * Len(FourSetList)) |->
        ml_get_success_distribution(ml, registry,
            FourChoiceProblem(make_problem_type_id("tone", 1),
                              FourSetList[((i - 1) \div 4) + 1][((i - 1) % 4) + 1],
                              FourSetList[((i - 1) \div 4) + 1]),
            state) ]

\* the calls at which the loops end: one that raises, or one whose mean is
\* below the threshold
FourChoiceEnds(ml, calls) ==
    { i \in DOMAIN calls :
        \/ calls[i].raised # ""
        \/ SuccessStatBelow(ml, calls[i], FOUR_CHOICE_MASTERY_THRESHOLD) }

\* "mixed" at the first success mean below the threshold, the error of the
\* first call that raises, "4-choice-multi" after the loops
FourChoiceLevelAt(calls, ends) ==
    IF ends = {}
    THEN [raised |-> "", level |-> "4-choice-multi", registry |-> calls[1].registry]
    ELSE LET beta == calls[CHOOSE i \in ends : \A l \in ends : i <= l]
         IN  IF beta.raised # ""
             THEN [raised |-> beta.raised, level |-> None, registry |-> beta.registry]
             ELSE [raised |-> "", level |-> "mixed", registry |-> beta.registry]

FourChoiceLevelOf(ml, calls) == FourChoiceLevelAt(calls, FourChoiceEnds(ml, calls))

\* the second half of _get_difficulty_level.  The registry holds the type
\* from the first lookup on.
FourChoiceLevel(ml, registry, state) ==
    FourChoiceLevelOf(ml, FourChoiceCalls(ml, registry, state))

\* _get_difficulty_level from "for pair, beta in pair_stats.items()" on
DifficultyLevelOf(ml, state, pair_stats) ==
    IF pair_stats.raised # ""
    THEN [raised |-> pair_stats.raised, level |-> None,
          registry |-> pair_stats.registry]
    ELSE IF \E pr \in DOMAIN pair_stats.stats :
               PairStatBelow(ml, make_problem_type_id("tone", 1), state, pr,
                             pair_stats.stats[pr], PAIR_MASTERY_THRESHOLD)
    THEN [raised |-> "", level |-> "2-choice", registry |-> pair_stats.registry]
    ELSE FourChoiceLevel(ml, pair_stats.registry, state)

\* DrillService._get_difficulty_level: the level or the error raised, and
\* the registry afterwards
_get_difficulty_level(ml, registry, state) ==
    DifficultyLevelOf(ml, state,
        ml_get_all_pair_stats(ml, registry, make_problem_type_id("tone", 1), state))

\* LessonService.get_next_lesson_id: coalesce(max(lesson_id), 0) + 1 over the
\* user's attempts (SQL max ignores NULL).  An Optional[int] column is a
\* sequence of at most one integer.
get_next_lesson_id(log, user_id) ==
    LET mine == SelectSeq(log, LAMBDA a : a.user_id = user_id /\ a.lesson_id # <<>>)
    IN  SeqMax([i \in 1..Len(mine) |-> mine[i].lesson_id[1]]) + 1

\* the LessonState dataclass with its defaults
LessonState(lesson_id, theme_id, theme_pairs, drill_sequence) ==
    [ lesson_id |-> lesson_id, theme_id |-> theme_id, theme_pairs |-> theme_pairs,
      drill_sequence |-> drill_sequence, current_index |-> 0, phase |-> LEARNING,
      mistakes |-> <<>>, review_index |-> 0 ]

\* the keys of the dict get_all_pair_stats returns, in insertion order:
\* for i ascending, for j > i ascending
RECURSIVE PairOrder(_, _, _)
PairOrder(n, i, j) ==
    IF i >= n THEN <<>>
    ELSE IF j > n THEN PairOrder(n, i + 1, i + 2)
    ELSE << <<i, j>> >> \o PairOrder(n, i, j + 1)

\* pair_stats.items(), each value by its mean
RECURSIVE PairItems(_, _)
PairItems(pair_stats, order) ==
    IF order = <<>> THEN <<>>
    ELSE << [pair |-> Head(order), mean |-> pair_stats[Head(order)]] >>
             \o PairItems(pair_stats, Tail(order))

\* whether the item at y comes before the item at x, two items of equal
\* exact mean, in sorted(items, key=lambda x: x[1].mean): by the doubles,
\* items of equal mean keeping their order
TiedBefore(betas, doubles, y, x) ==
    IF betas[y] = betas[x] THEN y < x
    ELSE \/ DoubleLess(doubles[y], doubles[x])
         \/ ~DoubleLess(doubles[x], doubles[y]) /\ y < x

\* the doubles of the items at the indices of need
RECURSIVE PairDoubles(_, _, _)
PairDoubles(betas, need, i) ==
    IF i > Len(betas) THEN <<>>
    ELSE << IF i \in need THEN PairMeanDouble(betas[i]) ELSE DoubleZero >>
             \o PairDoubles(betas, need, i + 1)

\* the doubles of the items tied with one another, if their Betas differ
TiedDoubles(betas, tied) ==
    PairDoubles(betas, IF \A y, z \in tied : betas[y] = betas[z] THEN {} ELSE tied, 1)

\* the items of exact mean equal to that of the item at x
TiedWith(items, x) ==
    { y \in 1..Len(items) : FracEqual(items[y].mean, items[x].mean) }

\* the rank of the item at x among the items of equal exact mean
TiedRank(betas, doubles, tied, x) ==
    Cardinality({ y \in tied : y # x /\ TiedBefore(betas, doubles, y, x) })

\* sorted(items, key=lambda x: x[1].mean)[n][0], n counted from 0: an item
\* of smaller mean comes first, items of equal mean keep their order
SortedAt(items, betas, n) ==
    items[CHOOSE x \in 1..Len(items) :
              LET below == Cardinality({ y \in 1..Len(items) :
                               FracLess(items[y].mean, items[x].mean) })
              IN  /\ below <= n
                  /\ n < below + Cardinality(TiedWith(items, x))
                  /\ TiedRank(betas, TiedDoubles(betas, TiedWith(items, x)),
                              TiedWith(items, x), x) = n - below].pair
SortedPair(self, problem_type_id, state, items, n) == Float("SortedPair", <<self, problem_type_id, state, items, n>>)
SortedPairBody(self, problem_type_id, state, items, n) ==
    SortedAt(items,
             [i \in 1..Len(items) |->
                 PairBetas(self, problem_type_id, state, items[i].pair)], n)

\* x[1].mean of item a < x[1].mean of item b for the Betas of
\* ConfusionMLService, as Python compares two floats: False when either is
\* nan
ConfusionKeyLess(stats, doubles, a, b) ==
    /\ ~stats[a].nan /\ ~stats[b].nan
    /\ DoubleLess(doubles[a], doubles[b])

\* count_run of list.sort: the last place of the run that starts the list,
\* strictly descending (desc) or non-descending, from the place k in it
RECURSIVE RunEnd(_, _, _, _)
RunEnd(stats, doubles, k, desc) ==
    IF k = Len(stats) THEN k
    ELSE IF ConfusionKeyLess(stats, doubles, k + 1, k) = desc
    THEN RunEnd(stats, doubles, k + 1, desc)
    ELSE k

\* the list after count_run: a descending run is reversed
AfterRun(stats, doubles) ==
    LET n    == Len(stats)
        desc == ConfusionKeyLess(stats, doubles, 2, 1)
        run  == RunEnd(stats, doubles, 2, desc)
    IN  [ run  |-> run,
          list |-> [i \in 1..n |-> IF desc /\ i <= run THEN run + 1 - i ELSE i] ]

\* binarysort's search for the place of pivot in list[l .. r - 1]
RECURSIVE InsertionPlace(_, _, _, _, _, _)
InsertionPlace(stats, doubles, list, pivot, l, r) ==
    IF l >= r THEN l
    ELSE LET p == l + ((r - l) \div 2)
         IN  IF ConfusionKeyLess(stats, doubles, pivot, list[p])
             THEN InsertionPlace(stats, doubles, list, pivot, l, p)
             ELSE InsertionPlace(stats, doubles, list, pivot, p + 1, r)

\* binarysort of list.sort from the place start on (a list shorter than 64
\* is sorted by one binary insertion sort after its first run)
RECURSIVE BinarySort(_, _, _, _)
BinarySort(stats, doubles, list, start) ==
    IF start > Len(list) THEN list
    ELSE LET l == InsertionPlace(stats, doubles, list, list[start], 1, start)
         IN  BinarySort(stats, doubles,
                        [i \in 1..Len(list) |->
                            IF i < l \/ i > start THEN list[i]
                            ELSE IF i = l THEN list[start]
                            ELSE list[i - 1]],
                        start + 1)

\* sorted(pair_stats.items(), key=lambda x: x[1].mean) for the dict of
\* ConfusionMLService.get_all_pair_stats: the places of the items of order
\* after the sort
ConfusionSorted(pair_stats, order) == Float("ConfusionSorted", <<pair_stats, order>>)
ConfusionSortedBody(pair_stats, order) ==
    LET stats   == [i \in 1..Len(order) |-> pair_stats[order[i]]]
        doubles == [i \in 1..Len(order) |->
                       IF stats[i].nan THEN DoubleZero ELSE ConfusionMeanDouble(stats[i])]
    IN  IF Len(order) < 2 THEN [i \in 1..Len(order) |-> i]
        ELSE BinarySort(stats, doubles, AfterRun(stats, doubles).list,
                        AfterRun(stats, doubles).run + 1)

\* _select_adaptive_theme from "sorted_pairs = sorted(" on, for the dict of
\* ConfusionMLService.get_all_pair_stats
ConfusionTheme(pair_stats, order) ==
    IF Len(order) >= 2
    THEN << order[ConfusionSorted(pair_stats, order)[1]],
            order[ConfusionSorted(pair_stats, order)[2]] >>
    ELSE LESSON_THEMES[1]

\* _select_adaptive_theme from "sorted_pairs = sorted(" on, for the dict of
\* LuceMLService.get_all_pair_stats
LuceTheme(ml, problem_type_id, state, items) ==
    IF Len(items) >= 2
    THEN << SortedPair(ml, problem_type_id, state, items, 0),
            SortedPair(ml, problem_type_id, state, items, 1) >>
    ELSE LESSON_THEMES[1]

\* the pair_stats of self.ml.get_all_pair_stats sorted
ThemeOf(ml, problem_type_id, state, pair_stats) ==
    IF ml.cls = "LuceMLService"
    THEN LuceTheme(ml, problem_type_id, state,
                   PairItems(pair_stats.stats, PairOrder(pair_stats.n_classes, 1, 2)))
    ELSE ConfusionTheme(pair_stats.stats, PairOrder(pair_stats.n_classes, 1, 2))

\* LessonService._select_adaptive_theme; states is None or a dict from
\* problem type ids to states held by value; self.ml is the service the
\* LessonService holds
_select_adaptive_theme(ml, registry, states) ==
    IF states = None THEN LESSON_THEMES[1]
    ELSE IF make_problem_type_id("tone", 1) \notin DOMAIN states THEN LESSON_THEMES[1]
    ELSE ThemeOf(ml, make_problem_type_id("tone", 1),
                 states[make_problem_type_id("tone", 1)],
                 ml_get_all_pair_stats(ml, registry, make_problem_type_id("tone", 1),
                                       states[make_problem_type_id("tone", 1)]))

\* LessonService.start_lesson from the point where the awaited lesson_id
\* query has returned: theme, plan, LessonState.  theme_id is an
\* Optional[int]: <<>> for None, <<n>> for n.
start_lesson_resumed(ml, registry, lesson_id, theme_id, states, r) ==
    IF theme_id # <<>>
    THEN LET actual_theme_id == theme_id[1] % Len(LESSON_THEMES)
         IN  LessonState(lesson_id, actual_theme_id,
                         LESSON_THEMES[actual_theme_id + 1], _generate_drill_sequence(r))
    ELSE LessonState(lesson_id, -1, _select_adaptive_theme(ml, registry, states),
                     _generate_drill_sequence(r))

\* LessonService.start_lesson when nothing runs during its await
start_lesson(ml, registry, log, user_id, theme_id, states, r) ==
    start_lesson_resumed(ml, registry, get_next_lesson_id(log, user_id), theme_id,
                         states, r)

\* LessonState.progress
progress(state) ==
    IF state.phase = LEARNING
    THEN [phase |-> LEARNING, current |-> state.current_index,
          total |-> Len(state.drill_sequence)]
    ELSE IF state.phase = REVIEW
    THEN [phase |-> REVIEW, current |-> state.review_index,
          total |-> Len(state.mistakes)]
    ELSE [phase |-> COMPLETE, total_drills |-> Len(state.drill_sequence),
          mistakes_reviewed |-> Len(state.mistakes)]

Drill(problem, mode, prog) == [problem |-> problem, mode |-> mode, progress |-> prog]

\* a review pass that replays the newest mistake first
_get_review_drill_lifo(state) ==
    IF state.review_index >= Len(state.mistakes)
    THEN [state |-> [state EXCEPT !.phase = COMPLETE], result |-> None]
    ELSE LET mistake == state.mistakes[Len(state.mistakes) - state.review_index]
         IN  [state |-> state,
              result |-> Drill(mistake.problem, mistake.mode, progress(state))]

\* LessonService._get_review_drill: the state after the call and its result
_get_review_drill(state) ==
    IF state.review_index >= Len(state.mistakes)
    THEN [state |-> [state EXCEPT !.phase = COMPLETE], result |-> None]
    ELSE LET mistake == state.mistakes[state.review_index + 1]
         IN  [state |-> state,
              result |-> Drill(mistake.problem, mistake.mode, progress(state))]

\* a learning phase that ends one drill early
_get_learning_drill_early(state, cat, d) ==
    IF state.current_index >= Len(state.drill_sequence) - 1
    THEN IF state.mistakes # <<>>
         THEN _get_review_drill([state EXCEPT !.phase = REVIEW])
         ELSE [state |-> [state EXCEPT !.phase = COMPLETE], result |-> None]
    ELSE LET mode == state.drill_sequence[state.current_index + 1]
         IN  [state |-> state,
              result |-> Drill(_sample_drill_for_mode(mode, state.theme_pairs, cat, d),
                               mode, progress(state))]

\* LessonService._get_learning_drill
_get_learning_drill(state, cat, d) ==
    IF state.current_index >= Len(state.drill_sequence)
    THEN IF state.mistakes # <<>>
         THEN _get_review_drill([state EXCEPT !.phase = REVIEW])
         ELSE [state |-> [state EXCEPT !.phase = COMPLETE], result |-> None]
    ELSE LET mode == state.drill_sequence[state.current_index + 1]
         IN  [state |-> state,
              result |-> Drill(_sample_drill_for_mode(mode, state.theme_pairs, cat, d),
                               mode, progress(state))]

\* LessonService.get_next_drill on the session table entry (None: no session)
get_next_drill(state, cat, d) ==
    IF state = None THEN [state |-> None, result |-> None]
    ELSE IF state.phase = LEARNING THEN _get_learning_drill(state, cat, d)
    ELSE IF state.phase = REVIEW THEN _get_review_drill(state)
    ELSE [state |-> state, result |-> None]

MistakeRecord(problem, mode, user_selected) ==
    [problem |-> problem, mode |-> mode, user_selected |-> user_selected]

\* a record_answer that advances the learning cursor on correct answers only
record_answer_retry(state, problem, mode, selected_sequence, is_correct) ==
    IF state = None THEN None
    ELSE IF state.phase = LEARNING
    THEN [state EXCEPT
            !.mistakes = IF ~is_correct
                         THEN Append(@, MistakeRecord(problem, mode, selected_sequence))
                         ELSE @,
            !.current_index = IF is_correct THEN @ + 1 ELSE @]
    ELSE IF state.phase = REVIEW
    THEN [state EXCEPT !.review_index = @ + 1]
    ELSE state

\* a record_answer whose review pass collects further mistakes
record_answer_recursive(state, problem, mode, selected_sequence, is_correct) ==
    IF state = None THEN None
    ELSE IF state.phase = LEARNING
    THEN [state EXCEPT
            !.mistakes = IF ~is_correct
                         THEN Append(@, MistakeRecord(problem, mode, selected_sequence))
                         ELSE @,
            !.current_index = @ + 1]
    ELSE IF state.phase = REVIEW
    THEN [state EXCEPT
            !.mistakes = IF ~is_correct
                         THEN Append(@, MistakeRecord(problem, mode, selected_sequence))
                         ELSE @,
            !.review_index = @ + 1]
    ELSE state

\* a record_answer without the phase test: every answer is a learning answer
record_answer_unphased(state, problem, mode, selected_sequence, is_correct) ==
    IF state = None THEN None
    ELSE [state EXCEPT
            !.mistakes = IF ~is_correct
                         THEN Append(@, MistakeRecord(problem, mode, selected_sequence))
                         ELSE @,
            !.current_index = @ + 1]

\* LessonService.record_answer on the session table entry
record_answer(state, problem, mode, selected_sequence, is_correct) ==
    IF state = None THEN None
    ELSE IF state.phase = LEARNING
    THEN [state EXCEPT
            !.mistakes = IF ~is_correct
                         THEN Append(@, MistakeRecord(problem, mode, selected_sequence))
                         ELSE @,
            !.current_index = @ + 1]
    ELSE IF state.phase = REVIEW
    THEN [state EXCEPT !.review_index = @ + 1]
    ELSE state

\* LessonService.get_lesson_summary
get_lesson_summary(state) ==
    IF state = None THEN None
    ELSE IF state.phase # COMPLETE THEN None
    ELSE [ lesson_id |-> state.lesson_id, theme_id |-> state.theme_id,
           theme_pairs |-> state.theme_pairs,
           total_drills |-> Len(state.drill_sequence),
           mistakes_count |-> Len(state.mistakes),
           accuracy |-> ((Len(state.drill_sequence) - Len(state.mistakes)) * 100)
                            \div Len(state.drill_sequence) ]

--------------------------------------------------------------------------
(***************************************************************************)
(* The lesson service driven by a caller: one action per LessonService     *)
(* method.  hist records what the caller did and saw; no operation of the  *)
(* service reads it.                                                       *)
(***************************************************************************)
\* theme_id values a caller passes: 9 wraps to theme 1, None (<<>>) asks for
\* the adaptive theme
ThemeInputs == { <<9>>, <<>> }

\* a tone_1 posterior with two answers 4 to tone 3 and one answer 6 to tone 5
WeakState ==
    [ cls |-> "LuceState", n_classes |-> N_TONES,
      counts |-> [i \in 1..N_TONES |-> [j \in 1..N_TONES |->
                     IF <<i, j>> = <<3, 4>> THEN 2
                     ELSE IF <<i, j>> = <<5, 6>> THEN 1 ELSE 0]],
      prior |-> 1 ]

\* the states argument of start_lesson: absent, without a tone_1 entry, and
\* with a tone_1 posterior
StatesInputs ==
    { None, DictSet(EmptyDict, tone_2, WeakState), DictSet(EmptyDict, tone_1, WeakState) }

\* the arguments a caller passes with each theme_id
StartInputs ==
    { <<t, st>> \in ThemeInputs \X StatesInputs : t # <<>> => st = None }

\* the ml attribute of a constructed LessonService
LessonServiceMl == LuceMLService(1)

NoHist ==
    [ starts |-> 0, lesson_no |-> 0, starting |-> None, user_id |-> "",
      started |-> FALSE, tape |-> 0, samples |-> 0, pending |-> FALSE, extra |-> 0,
      answers |-> 0, last_answer |-> "none", lastDrill |-> None, summary |-> None,
      learning_served |-> 0, review_served |-> <<>>, wrong_log |-> <<>>,
      complete_reported |-> FALSE, double_answer |-> FALSE ]

\* the drill a caller answers: the one it was served last (before any drill
\* was served, the canonical problem)
AnsweredDrill(h) ==
    IF h.lastDrill # None THEN h.lastDrill
    ELSE Drill(Problem(make_problem_type_id("tone", 1), 0, <<1>>, << <<1>>, <<2>> >>),
               TWO_CHOICE_1SYL, None)

\* a presented choice other than the correct one
WrongChoices(problem) ==
    SelectSeq(problem.alternatives, LAMBDA a : a # problem.correct_sequence)

InitLesson ==
    /\ sessions = [sid \in SessionIds |-> None]
    /\ attempts = <<>>
    /\ catalog = CatalogFull
    /\ hist = [sid \in SessionIds |-> NoHist]
    /\ resp = None
    /\ user_state = <<>>
    /\ proc = None
    /\ pure = None

\* start_lesson up to the await of get_next_lesson_id: the query runs on the
\* log as it is now, the coroutine is suspended.  A call with a session id
\* that start_lesson was called with before is one of the caller's
\* out-of-turn calls.
StartLesson(sid, user_id, theme_id, states, extraBudget) ==
    LET h == hist[sid]
    IN  /\ h.starting = None
        /\ h.starts > 0 => h.extra < extraBudget
        /\ hist' = [hist EXCEPT ![sid] =
              [h EXCEPT !.starts = @ + 1,
                        !.extra = IF h.starts > 0 THEN @ + 1 ELSE @,
                        !.starting = [ lesson_id |-> get_next_lesson_id(attempts, user_id),
                                       user_id |-> user_id, theme_id |-> theme_id,
                                       states |-> states ]]]
        /\ UNCHANGED <<sessions, attempts, catalog, nonLesson>>

\* start_lesson resumed: the LessonState is built and stored under the
\* session id, replacing the one stored there; what the caller saw of the
\* replaced lesson is forgotten, the out-of-turn calls it made are not
StartLessonResume(sid, r, tape) ==
    LET h == hist[sid]
        c == h.starting
    IN  /\ c # None
        /\ sessions' = [sessions EXCEPT ![sid] =
              start_lesson_resumed(LessonServiceMl, PROBLEM_TYPES, c.lesson_id,
                                   c.theme_id, c.states, r)]
        /\ hist' = [hist EXCEPT ![sid] =
              [NoHist EXCEPT !.started = TRUE, !.tape = tape, !.starts = h.starts,
                             !.user_id = c.user_id,
                             !.extra = h.extra,
                             !.lesson_no = h.lesson_no + 1]]
        /\ UNCHANGED <<attempts, catalog, nonLesson>>

\* extraBudget: how many out-of-turn calls the caller may make in all
GetNextDrill(sid, extraBudget) ==
    LET h   == hist[sid]
        r   == get_next_drill(sessions[sid], catalog, DrawAt(h.tape, h.samples))
        res == r.result
        learning == res # None /\ res.progress.phase = LEARNING
        review   == res # None /\ res.progress.phase = REVIEW
    IN  /\ h.pending => h.extra < extraBudget
        /\ sessions' = [sessions EXCEPT ![sid] = r.state]
        /\ hist' = [hist EXCEPT ![sid] =
              [h EXCEPT
                 !.last_answer = "none",
                 !.extra = IF h.pending THEN @ + 1 ELSE @,
                 !.pending = (res # None),
                 !.lastDrill = IF res # None THEN res ELSE @,
                 !.samples = IF learning THEN @ + 1 ELSE @,
                 !.learning_served = IF learning THEN @ + 1 ELSE @,
                 !.review_served =
                     IF review
                     THEN Append(@, [problem |-> res.problem, mode |-> res.mode])
                     ELSE @,
                 !.complete_reported = @ \/ (res = None /\ sessions[sid] # None)]]
        /\ UNCHANGED <<attempts, catalog, nonLesson>>

\* wrongBudget: how many incorrect learning answers the caller may give
RecordAnswer(sid, is_correct, extraBudget, wrongBudget) ==
    LET h          == hist[sid]
        drill      == AnsweredDrill(h)
        wrong      == WrongChoices(drill.problem)
        selected   == IF is_correct THEN drill.problem.correct_sequence ELSE wrong[1]
        inLearning == sessions[sid] # None /\ sessions[sid].phase = LEARNING
    IN  /\ ~h.pending => h.extra < extraBudget
        /\ ~is_correct => wrong # <<>>
        /\ (inLearning /\ ~is_correct) => Len(h.wrong_log) < wrongBudget
        /\ sessions' = [sessions EXCEPT ![sid] =
              record_answer(@, drill.problem, drill.mode, selected, is_correct)]
        /\ hist' = [hist EXCEPT ![sid] =
              [h EXCEPT
                 !.answers = @ + 1,
                 !.last_answer = IF is_correct THEN "right" ELSE "wrong",
                 !.extra = IF ~h.pending THEN @ + 1 ELSE @,
                 !.pending = FALSE,
                 !.double_answer = @ \/ h.last_answer # "none",
                 !.wrong_log =
                     IF inLearning /\ ~is_correct
                     THEN Append(@, [problem |-> drill.problem, mode |-> drill.mode])
                     ELSE @]]
        /\ UNCHANGED <<attempts, catalog, nonLesson>>

GetLessonSummary(sid) ==
    /\ hist' = [hist EXCEPT ![sid] =
          [@ EXCEPT !.summary = get_lesson_summary(sessions[sid])]]
    /\ UNCHANGED <<sessions, attempts, catalog, nonLesson>>

\* LessonService.cleanup_session, called once completion was reported
CleanupSession(sid) ==
    /\ hist[sid].complete_reported
    /\ sessions' = [sessions EXCEPT ![sid] = None]
    /\ UNCHANGED <<attempts, catalog, hist, nonLesson>>

LessonDriverIds == {"s1"}

\* A caller that follows the protocol: one start_lesson per session id (the
\* router makes a new id for every lesson), one answer per served drill.
NextLesson ==
    \/ \E sid \in LessonDriverIds, u \in UserIds, arg \in StartInputs :
          StartLesson(sid, u, arg[1], arg[2], 0)
    \/ \E sid \in LessonDriverIds, k \in 1..NPlans, tape \in 1..NTapes :
          StartLessonResume(sid, PlanDraws[k], tape)
    \/ \E sid \in LessonDriverIds : GetNextDrill(sid, 0)
    \/ \E sid \in LessonDriverIds, ok \in BOOLEAN :
          RecordAnswer(sid, ok, 0, DRILLS_PER_LESSON)
    \/ \E sid \in LessonDriverIds : GetLessonSummary(sid)
    \/ \E sid \in LessonDriverIds : CleanupSession(sid)

SpecLesson == InitLesson /\ [][NextLesson]_vars

\* A caller that calls the methods in any order, within the budgets.
NextLessonFree ==
    \/ \E sid \in LessonDriverIds, u \in UserIds, arg \in StartInputs :
          StartLesson(sid, u, arg[1], arg[2], MaxExtraCalls)
    \/ \E sid \in LessonDriverIds : StartLessonResume(sid, PlanDraws[1], 1)
    \/ \E sid \in LessonDriverIds : GetNextDrill(sid, MaxExtraCalls)
    \/ \E sid \in LessonDriverIds, ok \in BOOLEAN :
          RecordAnswer(sid, ok, MaxExtraCalls, MaxWrongAnswers)
    \/ \E sid \in LessonDriverIds : GetLessonSummary(sid)
    \/ \E sid \in LessonDriverIds : CleanupSession(sid)

SpecLessonFree == InitLesson /\ [][NextLessonFree]_vars

--------------------------------------------------------------------------
(***************************************************************************)
(* Lesson controller: properties                                           *)
(***************************************************************************)
MistakeDrills(state) ==
    [i \in 1..Len(state.mistakes) |->
        [problem |-> state.mistakes[i].problem, mode |-> state.mistakes[i].mode]]

\* C1: in a lesson driven by alternating get_next_drill and record_answer,
\* never more than DRILLS_PER_LESSON learning drills are served, and when
\* get_next_drill reports completion exactly DRILLS_PER_LESSON learning
\* drills and exactly |mistakes| review drills have been served.
C1_LessonLength ==
    \A sid \in SessionIds :
        LET h == hist[sid]
        IN  /\ h.learning_served <= DRILLS_PER_LESSON
            /\ (h.complete_reported /\ sessions[sid] # None) =>
                  /\ h.learning_served = DRILLS_PER_LESSON
                  /\ Len(h.review_served) = Len(sessions[sid].mistakes)

C1_Witness ==
    \E sid \in SessionIds :
        /\ hist[sid].complete_reported
        /\ sessions[sid] # None
        /\ Len(sessions[sid].mistakes) = 3
        /\ Len(hist[sid].review_served) = 3
        /\ hist[sid].learning_served = DRILLS_PER_LESSON

\* C2: the phase of a lesson (one LessonState; start_lesson on the same
\* session id begins another lesson) changes only LEARNING -> REVIEW (cursor
\* at the end of the plan, some mistake collected), LEARNING -> COMPLETE
\* (cursor at the end of the plan, no mistake) or REVIEW -> COMPLETE (review
\* cursor at the number of mistakes).
C2_PhaseTransitions ==
    [][\A sid \in SessionIds :
          (/\ sessions[sid] # None
           /\ sessions'[sid] # None
           /\ hist'[sid].lesson_no = hist[sid].lesson_no
           /\ sessions'[sid].phase # sessions[sid].phase) =>
          LET a == sessions[sid]
              b == sessions'[sid]
          IN  \/ /\ a.phase = LEARNING /\ b.phase = REVIEW
                 /\ a.current_index >= DRILLS_PER_LESSON
                 /\ a.mistakes # <<>>
              \/ /\ a.phase = LEARNING /\ b.phase = COMPLETE
                 /\ a.current_index >= DRILLS_PER_LESSON
                 /\ a.mistakes = <<>>
              \/ /\ a.phase = REVIEW /\ b.phase = COMPLETE
                 /\ a.review_index >= Len(a.mistakes)]_vars

C2_Witness ==
    \E sid \in SessionIds :
        /\ sessions[sid] # None
        /\ sessions[sid].phase = COMPLETE
        /\ sessions[sid].mistakes # <<>>
        /\ sessions[sid].review_index = Len(sessions[sid].mistakes)
        /\ sessions[sid].current_index = DRILLS_PER_LESSON

\* C3: the review drills served are the recorded mistakes in the order the
\* incorrect learning answers were given, each once, and the summary's
\* mistakes_count is the number of incorrect learning answers.
C3_ReviewOrder ==
    \A sid \in SessionIds :
        LET h == hist[sid]
        IN  /\ sessions[sid] # None =>
                  /\ MistakeDrills(sessions[sid]) = h.wrong_log
                  /\ Len(h.review_served) <= Len(h.wrong_log)
                  /\ h.review_served = SubSeq(h.wrong_log, 1, Len(h.review_served))
                  /\ h.complete_reported => h.review_served = h.wrong_log
            /\ h.summary # None => h.summary.mistakes_count = Len(h.wrong_log)

C3_Witness ==
    \E sid \in SessionIds :
        LET h == hist[sid]
        IN  /\ h.summary # None
            /\ h.summary.mistakes_count = 3
            /\ Len(h.review_served) = 3
            /\ h.review_served[1] # h.review_served[2]
            /\ h.review_served[2] # h.review_served[3]

\* C4: record_answer in LEARNING advances the learning cursor by one,
\* appends one mistake record iff the answer is incorrect and leaves the
\* review cursor alone; in REVIEW it advances the review cursor by one
\* whatever the answer and leaves the mistakes and the learning cursor alone.
C4_RecordAnswerEffect ==
    [][\A sid \in SessionIds :
          (hist'[sid].answers = hist[sid].answers + 1 /\ sessions[sid] # None) =>
          LET a  == sessions[sid]
              b  == sessions'[sid]
              ok == hist'[sid].last_answer = "right"
              dr == AnsweredDrill(hist[sid])
          IN  /\ b # None
              /\ b.phase = a.phase
              /\ a.phase = LEARNING =>
                    /\ b.current_index = a.current_index + 1
                    /\ b.review_index = a.review_index
                    /\ ok => b.mistakes = a.mistakes
                    /\ ~ok =>
                          /\ Len(b.mistakes) = Len(a.mistakes) + 1
                          /\ SubSeq(b.mistakes, 1, Len(a.mistakes)) = a.mistakes
                          /\ b.mistakes[Len(b.mistakes)].problem = dr.problem
                          /\ b.mistakes[Len(b.mistakes)].mode = dr.mode
              /\ a.phase = REVIEW =>
                    /\ b.review_index = a.review_index + 1
                    /\ b.mistakes = a.mistakes
                    /\ b.current_index = a.current_index]_vars

C4_Witness ==
    \E sid \in SessionIds :
        /\ sessions[sid] # None
        /\ sessions[sid].phase = REVIEW
        /\ sessions[sid].review_index = 1
        /\ Len(sessions[sid].mistakes) = 2
        /\ hist[sid].last_answer = "wrong"

--------------------------------------------------------------------------
(***************************************************************************)
(* ML layer.  Python objects live in a heap of rows: a state object holds  *)
(* references to its rows, so that a copy and an alias differ.  Counts are *)
(* floats with integral values.                                            *)
(***************************************************************************)
\* a fresh list of fresh rows holding the given matrix
HeapAlloc(heap, rows) ==
    [heap |-> heap \o rows, refs |-> [i \in 1..Len(rows) |-> Len(heap) + i]]

\* the matrix a list of row references denotes
Matrix(heap, refs) == [i \in 1..Len(refs) |-> heap[refs[i]]]

\* pydantic constructors: validation builds new lists from the argument
ConfusionState(heap, n_classes, counts) ==
    LET a == HeapAlloc(heap, counts)
    IN  [heap |-> a.heap,
         obj  |-> [cls |-> "ConfusionState", n_classes |-> n_classes,
                   counts |-> a.refs]]

LuceState(heap, n_classes, counts, prior) ==
    LET a == HeapAlloc(heap, counts)
    IN  [heap |-> a.heap,
         obj  |-> [cls |-> "LuceState", n_classes |-> n_classes,
                   counts |-> a.refs, prior |-> prior]]

\* the result of a call that raised
Raised(exc, heap) == [raised |-> exc, heap |-> heap, state |-> None, updates |-> <<>>]

StateUpdate(correct_class, selected_class, old_value, new_value) ==
    [ tracker_id |-> "counts[" \o ToString(correct_class) \o "]["
                     \o ToString(selected_class) \o "]",
      old_value |-> old_value, new_value |-> new_value ]

\* a copy_with_increment whose new_counts shares the rows of self.counts
ConfusionState_copy_with_increment_shallow(heap, self, played, selected) ==
    LET refs == self.counts
        i == PyIndex(played - 1, Len(refs))
        j == IF i = 0 THEN 0 ELSE PyIndex(selected - 1, Len(heap[refs[i]]))
    IN  IF i = 0 \/ j = 0 THEN Raised("IndexError", heap)
        ELSE LET h2 == [heap EXCEPT ![refs[i]][j] = @ + 1]
                 c  == ConfusionState(h2, self.n_classes, Matrix(h2, refs))
             IN  [raised |-> "", heap |-> c.heap, state |-> c.obj, updates |-> <<>>]

\* ConfusionState.copy_with_increment
ConfusionState_copy_with_increment(heap, self, played, selected) ==
    LET a == HeapAlloc(heap, Matrix(heap, self.counts))
        i == PyIndex(played - 1, Len(a.refs))
        j == IF i = 0 THEN 0 ELSE PyIndex(selected - 1, Len(a.heap[a.refs[i]]))
    IN  IF i = 0 \/ j = 0 THEN Raised("IndexError", a.heap)
        ELSE LET h2 == [a.heap EXCEPT ![a.refs[i]][j] = @ + 1]
                 c  == ConfusionState(h2, self.n_classes, Matrix(h2, a.refs))
             IN  [raised |-> "", heap |-> c.heap, state |-> c.obj, updates |-> <<>>]

\* LuceState.copy_with_increment
LuceState_copy_with_increment(heap, self, played, selected) ==
    LET a == HeapAlloc(heap, Matrix(heap, self.counts))
        i == PyIndex(played - 1, Len(a.refs))
        j == IF i = 0 THEN 0 ELSE PyIndex(selected - 1, Len(a.heap[a.refs[i]]))
    IN  IF i = 0 \/ j = 0 THEN Raised("IndexError", a.heap)
        ELSE LET h2 == [a.heap EXCEPT ![a.refs[i]][j] = @ + 1]
                 c  == LuceState(h2, self.n_classes, Matrix(h2, a.refs), self.prior)
             IN  [raised |-> "", heap |-> c.heap, state |-> c.obj, updates |-> <<>>]

\* state.copy_with_increment(played, selected), by the class of the state:
\* LuceState overrides the method of ConfusionState, BradleyTerryState
\* inherits it
copy_with_increment(heap, state, played, selected) ==
    IF state.cls = "LuceState"
    THEN LuceState_copy_with_increment(heap, state, played, selected)
    ELSE ConfusionState_copy_with_increment(heap, state, played, selected)

\* the two services
ConfusionMLService == [cls |-> "ConfusionMLService"]

\* get_initial_state: config = get_problem_type(problem_type_id) comes
\* first.  The error it raised or the state built, and the registry
\* afterwards.
InitialState(looked, heap, built) ==
    IF looked.raised # ""
    THEN [raised |-> looked.raised, registry |-> looked.registry, heap |-> heap,
          obj |-> None]
    ELSE [raised |-> "", registry |-> looked.registry, heap |-> built.heap,
          obj |-> built.obj]

\* ConfusionState.initial(n_classes, pseudocount)
ConfusionState_initial(heap, config) ==
    LET n == config.n_classes
        counts == [i \in 1..n |-> [j \in 1..n |->
                      IF i = j THEN config.pseudocount + config.pseudocount * 2
                      ELSE config.pseudocount]]
    IN  ConfusionState(heap, n, counts)

\* ConfusionMLService.get_initial_state
ConfusionMLService_get_initial_state(registry, heap, problem_type_id) ==
    LET looked == get_problem_type(registry, problem_type_id)
    IN  InitialState(looked, heap,
            IF looked.raised # "" THEN None
            ELSE ConfusionState_initial(heap, looked.config))

\* LuceState.initial(n_classes, prior)
LuceState_initial(heap, n, prior) ==
    LuceState(heap, n, [i \in 1..n |-> [j \in 1..n |-> 0]], prior)

\* LuceMLService.get_initial_state
LuceMLService_get_initial_state(self, registry, heap, problem_type_id) ==
    LET looked == get_problem_type(registry, problem_type_id)
    IN  InitialState(looked, heap,
            IF looked.raised # "" THEN None
            ELSE LuceState_initial(heap, looked.config.n_classes, self.prior))

\* ConfusionMLService.update_state: state.get_count, then
\* state.copy_with_increment
ConfusionMLService_update_state(heap, state, problem, answer) ==
    IF problem.correct_sequence = <<>> \/ answer.selected_sequence = <<>>
    THEN Raised("IndexError", heap)
    ELSE LET correct_class  == problem.correct_sequence[1]
             selected_class == answer.selected_sequence[1]
             i == PyIndex(correct_class - 1, Len(state.counts))
             j == IF i = 0 THEN 0
                  ELSE PyIndex(selected_class - 1, Len(heap[state.counts[i]]))
         IN  IF i = 0 \/ j = 0 THEN Raised("IndexError", heap)
             ELSE LET old_value == heap[state.counts[i]][j]
                      r == copy_with_increment(
                               heap, state, correct_class, selected_class)
                  IN  [r EXCEPT !.updates =
                          << StateUpdate(correct_class, selected_class,
                                         old_value, old_value + 1) >>]

\* LuceMLService.update_state
LuceMLService_update_state(self, heap, state, problem, answer) ==
    LET conv == IF state.cls = "LuceState" THEN [heap |-> heap, obj |-> state]
                ELSE LuceState(heap, state.n_classes,
                               Matrix(heap, state.counts), self.prior)
        luce_state == conv.obj
        h == conv.heap
    IN  IF problem.correct_sequence = <<>> \/ answer.selected_sequence = <<>>
        THEN Raised("IndexError", h)
        ELSE LET correct_class  == problem.correct_sequence[1]
                 selected_class == answer.selected_sequence[1]
                 i == PyIndex(correct_class - 1, Len(luce_state.counts))
                 j == IF i = 0 THEN 0
                      ELSE PyIndex(selected_class - 1, Len(h[luce_state.counts[i]]))
             IN  IF i = 0 \/ j = 0 THEN Raised("IndexError", h)
                 ELSE LET old_value == h[luce_state.counts[i]][j]
                          r == LuceState_copy_with_increment(
                                   h, luce_state, correct_class, selected_class)
                      IN  [r EXCEPT !.updates =
                              << StateUpdate(correct_class, selected_class,
                                             old_value, old_value + 1) >>]

\* the service a DrillService holds (self.ml), by class
ml_get_initial_state(ml, registry, heap, problem_type_id) ==
    IF ml.cls = "LuceMLService"
    THEN LuceMLService_get_initial_state(ml, registry, heap, problem_type_id)
    ELSE ConfusionMLService_get_initial_state(registry, heap, problem_type_id)

ml_update_state(ml, heap, state, problem, answer) ==
    IF ml.cls = "LuceMLService"
    THEN LuceMLService_update_state(ml, heap, state, problem, answer)
    ELSE ConfusionMLService_update_state(heap, state, problem, answer)

\* what an object holds: its fields, with the matrix its rows denote
StateValue(heap, obj) == [obj EXCEPT !.counts = Matrix(heap, obj.counts)]

\* the initial state of a type of PROBLEM_TYPES at import, by value
InitialValue(ml, problem_type_id) ==
    LET r == ml_get_initial_state(ml, PROBLEM_TYPES, <<>>, problem_type_id)
    IN  StateValue(r.heap, r.obj)

--------------------------------------------------------------------------
(***************************************************************************)
(* DrillService: sampling the next problem (services/drill.py).  A call    *)
(* reads its random outcomes from a draw record:                           *)
(*   preview  random.random() < PREVIEW_PROBABILITY                        *)
(*   phalf    random.random() < 0.5 of the preview from "2-choice"         *)
(*   half     random.random() < 0.5 of the tier "mixed"                    *)
(*   pw, w    the index _weighted_sample draws in the preview and in the   *)
(*            tier's own sampler                                           *)
(*   pd, d, fd  the draws of the preview's sampler, of the tier's own      *)
(*            sampler and of _sample_fallback, as in DrawAt                *)
(***************************************************************************)
\* a draw record that uses the same draws wherever it samples
SampleDraw(preview, half, w, d) ==
    [ preview |-> preview, phalf |-> half, half |-> half, pw |-> w, w |-> w,
      pd |-> d, d |-> d, fd |-> d ]

\* states.get(problem_type_id), or the service's initial state
StateOrInitial(ml, states, problem_type_id) ==
    IF problem_type_id \in DOMAIN states THEN states[problem_type_id]
    ELSE InitialValue(ml, problem_type_id)

\* some pair_stats[p].mean is nan (ConfusionMLService on a pair without
\* counts)
SomeMeanNan(ml, stats) ==
    /\ ml.cls # "LuceMLService"
    /\ \E pr \in DOMAIN stats : stats[pr].nan

\* DrillService._weighted_sample on n weights, as an index from 1.  Every
\* weight is a power or an average of errors 1 - mean, and a mean is below
\* 1 or nan.  With positive weights every index is an outcome, w the one
\* drawn; with a nan weight total and r are nan, no r <= 0 holds and the
\* last index is returned; for no weights random.randint(0, -1) raises.
_weighted_sample(n, nan, w) ==
    IF n = 0 THEN [raised |-> "ValueError"]
    ELSE [raised |-> "", index |-> IF nan THEN n ELSE ((w - 1) % n) + 1]

\* _sample_2_choice from "pairs = list(pair_stats.keys())" on
_sample_2_choice_of(ml, pair_stats, cat, w, d) ==
    IF pair_stats.raised # "" THEN [raised |-> pair_stats.raised]
    ELSE LET pairs == PairListOf(pair_stats.n_classes)
             picked == _weighted_sample(Len(pairs), SomeMeanNan(ml, pair_stats.stats), w)
         IN  IF picked.raised # "" THEN [raised |-> picked.raised]
             ELSE LET selected_pair == pairs[picked.index]
                      first == IF d.coin THEN selected_pair[1] ELSE selected_pair[2]
                      other == IF first = selected_pair[1] THEN selected_pair[2]
                               ELSE selected_pair[1]
                      cls   == IF WordsFor(cat, <<first>>) # <<>> THEN first ELSE other
                      words == WordsFor(cat, <<cls>>)
                  IN  IF words = <<>> THEN None
                      ELSE Problem(make_problem_type_id("tone", 1),
                                   PyChoice(words, d.word), <<cls>>,
                                   << <<selected_pair[1]>>, <<selected_pair[2]>> >>)

\* DrillService._sample_2_choice; None when it finds no word
_sample_2_choice(ml, registry, states, cat, w, d) ==
    _sample_2_choice_of(ml,
        ml_get_all_pair_stats(ml, registry, make_problem_type_id("tone", 1),
            StateOrInitial(ml, states, make_problem_type_id("tone", 1))),
        cat, w, d)

\* _sample_4_choice from "four_choice_sets = ..." on
_sample_4_choice_of(ml, pair_stats, cat, w, d) ==
    IF pair_stats.raised # "" THEN [raised |-> pair_stats.raised]
    ELSE LET picked == _weighted_sample(Len(FourSetList),
                                        SomeMeanNan(ml, pair_stats.stats), w)
             selected_set == PyShuffle(FourSetList[picked.index], d.shuffle)
             has(c) == WordsFor(cat, <<c>>) # <<>>
         IN  IF ~\E i \in 1..4 : has(selected_set[i]) THEN None
             ELSE LET cls == selected_set[CHOOSE i \in 1..4 :
                                 has(selected_set[i])
                                 /\ \A l \in 1..(i - 1) : ~has(selected_set[l])]
                  IN  Problem(make_problem_type_id("tone", 1),
                              PyChoice(WordsFor(cat, <<cls>>), d.word), <<cls>>,
                              [i \in 1..4 |-> <<selected_set[i]>>])

\* DrillService._sample_4_choice; None when it finds no word
_sample_4_choice(ml, registry, states, cat, w, d) ==
    _sample_4_choice_of(ml,
        ml_get_all_pair_stats(ml, registry, make_problem_type_id("tone", 1),
            StateOrInitial(ml, states, make_problem_type_id("tone", 1))),
        cat, w, d)

\* DrillService._sample_4_choice_multi_syllable; None when it finds no word
_sample_4_choice_multi_syllable(cat, d) ==
    LET keys == TwoSyllableKeys(cat)
    IN  IF keys = <<>> THEN None
        ELSE LET key   == PyChoice(keys, d.pick)
                 words == WordsFor(cat, key)
             IN  IF words = <<>> THEN None
                 ELSE Problem(make_problem_type_id("tone", 2),
                              PyChoice(words, d.word), key,
                              _generate_distractors(key, d))

\* "if problem: return problem" on the preview, then on the tier's sample,
\* then the fallback; an error ends the call where it is raised
FirstProblem(preview, problem, fallback) ==
    IF preview # None THEN preview
    ELSE IF problem # None THEN problem
    ELSE fallback

\* a sampler whose preview from "2-choice" skips a tier
_sample_problem_skip(ml, registry, states, difficulty, cat, draw) ==
    LET preview ==
            IF ~draw.preview THEN None
            ELSE IF difficulty = "2-choice"
            THEN _sample_4_choice_multi_syllable(cat, draw.pd)
            ELSE IF difficulty = "mixed"
            THEN _sample_4_choice_multi_syllable(cat, draw.pd)
            ELSE None
        problem ==
            IF difficulty = "2-choice"
            THEN _sample_2_choice(ml, registry, states, cat, draw.w, draw.d)
            ELSE IF difficulty = "mixed"
            THEN IF draw.half
                 THEN _sample_4_choice(ml, registry, states, cat, draw.w, draw.d)
                 ELSE _sample_2_choice_multi_syllable(cat, draw.d)
            ELSE _sample_4_choice_multi_syllable(cat, draw.d)
    IN  FirstProblem(preview, problem, _sample_fallback(cat, draw.fd))

\* DrillService._sample_problem: the problem, or the error raised
_sample_problem(ml, registry, states, difficulty, cat, draw) ==
    LET preview ==
            IF ~draw.preview THEN None
            ELSE IF difficulty = "2-choice"
            THEN IF draw.phalf
                 THEN _sample_4_choice(ml, registry, states, cat, draw.pw, draw.pd)
                 ELSE _sample_2_choice_multi_syllable(cat, draw.pd)
            ELSE IF difficulty = "mixed"
            THEN _sample_4_choice_multi_syllable(cat, draw.pd)
            ELSE None
        problem ==
            IF difficulty = "2-choice"
            THEN _sample_2_choice(ml, registry, states, cat, draw.w, draw.d)
            ELSE IF difficulty = "mixed"
            THEN IF draw.half
                 THEN _sample_4_choice(ml, registry, states, cat, draw.w, draw.d)
                 ELSE _sample_2_choice_multi_syllable(cat, draw.d)
            ELSE _sample_4_choice_multi_syllable(cat, draw.d)
    IN  FirstProblem(preview, problem, _sample_fallback(cat, draw.fd))

--------------------------------------------------------------------------
(***************************************************************************)
(* DrillService.process_answer_and_get_next.  `states` is the caller's     *)
(* dict, assigned in place: a call that raises after the update leaves the *)
(* new posterior in it.  A result holds the error raised or "", the        *)
(* registry and the heap afterwards, the dict (the one returned, which is  *)
(* the caller's), the updates, the difficulty and the next problem.        *)
(***************************************************************************)
Answer(selected_sequence, elapsed_ms) ==
    [selected_sequence |-> selected_sequence, elapsed_ms |-> elapsed_ms]

\* "states.get(problem_type_id) or self.ml.get_initial_state(...)"
StateOrNew(ml, registry, heap, states, problem_type_id) ==
    IF problem_type_id \in DOMAIN states
    THEN [raised |-> "", registry |-> registry, heap |-> heap,
          obj |-> states[problem_type_id]]
    ELSE ml_get_initial_state(ml, registry, heap, problem_type_id)

\* "states[problem_type_id] = new_state" for the keys written, after the
\* update r of the state init; an update that raised writes nothing
UpdateStored(init, r, states, written) ==
    IF r.raised # ""
    THEN [raised |-> r.raised, registry |-> init.registry, heap |-> r.heap,
          states |-> states, updates |-> <<>>]
    ELSE [raised |-> "", registry |-> init.registry, heap |-> r.heap,
          states |-> [k \in (DOMAIN states) \cup written |->
                         IF k \in written THEN r.state ELSE states[k]],
          updates |-> r.updates]

\* the update of the state init found or made for the answered type
UpdateFrom(ml, init, problem, answer, states, written) ==
    IF init.raised # ""
    THEN [raised |-> init.raised, registry |-> init.registry, heap |-> init.heap,
          states |-> states, updates |-> <<>>]
    ELSE UpdateStored(init, ml_update_state(ml, init.heap, init.obj, problem, answer),
                      states, written)

\* an update that stores the new posterior under every key of the dict
UpdateAnsweredAll(ml, registry, heap, problem, answer, states) ==
    IF problem # None /\ answer # None
    THEN UpdateFrom(ml, StateOrNew(ml, registry, heap, states, problem.problem_type_id),
                    problem, answer, states,
                    (DOMAIN states) \cup {problem.problem_type_id})
    ELSE [raised |-> "", registry |-> registry, heap |-> heap, states |-> states,
          updates |-> <<>>]

\* "if problem and answer:", the update of the answered type's posterior
UpdateAnswered(ml, registry, heap, problem, answer, states) ==
    IF problem # None /\ answer # None
    THEN UpdateFrom(ml, StateOrNew(ml, registry, heap, states, problem.problem_type_id),
                    problem, answer, states, {problem.problem_type_id})
    ELSE [raised |-> "", registry |-> registry, heap |-> heap, states |-> states,
          updates |-> <<>>]

\* a call that raised: no problem is returned
NoNextProblem(updated, raised, registry) ==
    [ raised |-> raised, registry |-> registry, heap |-> updated.heap,
      states |-> updated.states, updates |-> <<>>, difficulty |-> None,
      next_problem |-> None ]

\* "return next_problem, states, updates", or the error of the sampler
NextProblemResult(updated, difficulty, next_problem) ==
    IF "raised" \in DOMAIN next_problem
    THEN NoNextProblem(updated, next_problem.raised, difficulty.registry)
    ELSE [ raised |-> "", registry |-> difficulty.registry, heap |-> updated.heap,
           states |-> updated.states, updates |-> updated.updates,
           difficulty |-> difficulty.level, next_problem |-> next_problem ]

\* "next_problem = self._sample_problem(difficulty, states)"
NextProblemAt(ml, updated, difficulty, cat, draw) ==
    IF difficulty.raised # ""
    THEN NoNextProblem(updated, difficulty.raised, difficulty.registry)
    ELSE NextProblemResult(updated, difficulty,
             _sample_problem(ml, difficulty.registry,
                             [k \in DOMAIN updated.states |->
                                 StateValue(updated.heap, updated.states[k])],
                             difficulty.level, cat, draw))

\* "difficulty = self._get_difficulty_level(tone_state)"
NextProblemFrom(ml, updated, tone_state, cat, draw) ==
    IF tone_state.raised # ""
    THEN NoNextProblem(updated, tone_state.raised, tone_state.registry)
    ELSE NextProblemAt(ml, updated,
             _get_difficulty_level(ml, tone_state.registry,
                                   StateValue(tone_state.heap, tone_state.obj)),
             cat, draw)

\* the call from "tone_state = states.get("tone_1") or ..." on
NextProblemAfter(ml, updated, cat, draw) ==
    IF updated.raised # ""
    THEN NoNextProblem(updated, updated.raised, updated.registry)
    ELSE NextProblemFrom(ml, updated,
             StateOrNew(ml, updated.registry, updated.heap, updated.states,
                        make_problem_type_id("tone", 1)),
             cat, draw)

\* a variant that stores the new posterior under every key of the dict
process_answer_and_get_next_all(ml, registry, heap, problem, answer, states, cat, draw) ==
    NextProblemAfter(ml, UpdateAnsweredAll(ml, registry, heap, problem, answer, states),
                     cat, draw)

process_answer_and_get_next(ml, registry, heap, problem, answer, states, cat, draw) ==
    NextProblemAfter(ml, UpdateAnswered(ml, registry, heap, problem, answer, states),
                     cat, draw)

--------------------------------------------------------------------------
(***************************************************************************)
(* The ML layer called directly.  Between calls the states are kept by     *)
(* value; each call allocates them as objects, runs, and records what the  *)
(* input objects and the results hold afterwards.                          *)
(***************************************************************************)
\* calls per run
MaxUpdates == 1

\* the pydantic constructor of BradleyTerryState (luce_service.py); the
\* private _cached_strengths is no field
BradleyTerryState(heap, n_classes, counts, prior) ==
    LET a == HeapAlloc(heap, counts)
    IN  [heap |-> a.heap,
         obj  |-> [cls |-> "BradleyTerryState", n_classes |-> n_classes,
                   counts |-> a.refs, prior |-> prior, model_version |-> 2]]

\* state_json: model_dump of a state object, the fields of its class
model_dump(heap, obj) ==
    IF obj.cls = "BradleyTerryState"
    THEN [n_classes |-> obj.n_classes, counts |-> Matrix(heap, obj.counts),
          prior |-> obj.prior, model_version |-> obj.model_version]
    ELSE IF obj.cls = "LuceState"
    THEN [n_classes |-> obj.n_classes, counts |-> Matrix(heap, obj.counts),
          prior |-> obj.prior]
    ELSE [n_classes |-> obj.n_classes, counts |-> Matrix(heap, obj.counts)]

\* _deserialize_state: state_json.get("model_version", 1) == 2 gives
\* BradleyTerryState(**state_json), whose prior defaults to 1.0; anything
\* else ConfusionState(**state_json), which ignores the other keys
_deserialize_state(heap, state_json) ==
    LET model_version == IF "model_version" \in DOMAIN state_json
                         THEN state_json.model_version ELSE 1
    IN  IF model_version = 2
        THEN BradleyTerryState(heap, state_json.n_classes, state_json.counts,
                               IF "prior" \in DOMAIN state_json
                               THEN state_json.prior ELSE 1)
        ELSE ConfusionState(heap, state_json.n_classes, state_json.counts)

\* objects for a dict of state values
RECURSIVE AllocAll(_, _, _)
AllocAll(keys, vals, acc) ==
    IF keys = <<>> THEN acc
    ELSE LET k == Head(keys)
         IN  IF k \notin DOMAIN vals THEN AllocAll(Tail(keys), vals, acc)
             ELSE LET a == HeapAlloc(acc.heap, vals[k].counts)
                      o == [vals[k] EXCEPT !.counts = a.refs]
                  IN  AllocAll(Tail(keys), vals,
                               [heap |-> a.heap, objs |-> DictSet(acc.objs, k, o)])

Objects(vals) ==
    AllocAll(SetToSeq(DOMAIN vals), vals, [heap |-> <<>>, objs |-> EmptyDict])

\* the correct and the selected sequence of a call: of one syllable or
\* two, with the first and the last class, and, out of range, an empty
\* sequence, a class 0 and a class beyond the six tones; the types: two
\* with a state in the dict, a registered one without, and one that is not
\* registered
MlAnswers ==
    { << <<2, 1>>, <<1>> >>, << <<2, 1>>, <<6, 2>> >>,
      << <<6>>, <<1>> >>,    << <<6>>, <<6, 2>> >>,
      << <<>>, <<1>> >>,     << <<2, 1>>, <<>> >>,
      << <<2, 1>>, <<0>> >>, << <<6>>, <<7>> >> }
CorrectInputs == {<<2, 1>>, <<>>}
MlTypeInputs == {tone_1, tone_2, vowel_1, make_problem_type_id("tone", 3)}

\* the random outcomes of the sampler in a call
MlDraws == { SampleDraw(pv, TRUE, 9, DrawAt(1, 0)) : pv \in BOOLEAN }

\* the two services a DrillService is built with
MlServices == {ConfusionMLService, LuceMLService(1)}

\* a posterior with answers on record
Observed(value) ==
    [value EXCEPT !.counts[2][1] = @ + 2, !.counts[6][6] = @ + 1]

\* a word index whose first entry is a blank word: sampling from it raises
\* where no problem is found and the fallback parses the blank key
CatalogBlank ==
    << [key |-> <<>>, words |-> <<40>>], [key |-> <<1>>, words |-> <<11>>] >>

InitMl ==
    /\ sessions = [sid \in SessionIds |-> None]
    /\ attempts = <<>>
    /\ catalog \in {CatalogFull, CatalogBlank}
    /\ hist = [sid \in SessionIds |-> NoHist]
    /\ resp = None
    /\ user_state = <<>>
    /\ proc = None
    \* the states of the dict were made by the service or, loaded from rows
    \* written under the other one, by the other service
    /\ \E ml \in MlServices, origin \in MlServices :
          /\ catalog = CatalogFull \/ origin = ml
          /\ pure = [ ml |-> ml, registry |-> PROBLEM_TYPES,
                      states |-> [k \in {tone_1, tone_2} |->
                                     IF k = tone_2 THEN Observed(InitialValue(origin, k))
                                     ELSE InitialValue(origin, k)],
                      calls |-> 0,
                      last |-> None ]

\* ml.update_state(states[T], problem, answer); the caller keeps the result
UpdateState(T, correct_sequence, selected_sequence) ==
    /\ pure.calls < MaxUpdates
    /\ T \in DOMAIN pure.states
    /\ LET o == Objects(pure.states)
           problem == Problem(T, 0, correct_sequence, <<>>)
           answer  == Answer(selected_sequence, 0)
           r == ml_update_state(pure.ml, o.heap, o.objs[T], problem, answer)
       IN  pure' = [pure EXCEPT
              !.calls = @ + 1,
              !.states = IF r.raised # "" THEN @
                         ELSE [@ EXCEPT ![T] = StateValue(r.heap, r.state)],
              !.last = [ op |-> "update_state", problem |-> problem,
                         answer |-> answer, raised |-> r.raised,
                         before |-> pure.states,
                         inputs_after |-> [k \in DOMAIN o.objs |->
                                              StateValue(r.heap, o.objs[k])],
                         after |-> IF r.raised # "" THEN EmptyDict
                                   ELSE DictSet(EmptyDict, T,
                                                StateValue(r.heap, r.state)),
                         same_objects |-> {},
                         updates |-> r.updates ]]
    /\ UNCHANGED <<sessions, attempts, catalog, hist, resp, user_state, proc>>

\* what a call on the objects o that returned r leaves
Processed(problem, answer, o, r) ==
    [pure EXCEPT
       !.calls = @ + 1,
       !.registry = r.registry,
       !.states = [k \in DOMAIN r.states |-> StateValue(r.heap, r.states[k])],
       !.last = [ op |-> "process", problem |-> problem,
                  answer |-> answer, raised |-> r.raised,
                  before |-> pure.states,
                  inputs_after |-> [k \in DOMAIN o.objs |->
                                       StateValue(r.heap, o.objs[k])],
                  after |-> [k \in DOMAIN r.states |->
                                StateValue(r.heap, r.states[k])],
                  same_objects |-> {k \in (DOMAIN o.objs) \cap (DOMAIN r.states) :
                                       r.states[k] = o.objs[k]},
                  updates |-> r.updates,
                  difficulty |-> r.difficulty,
                  next_problem |-> r.next_problem ]]

ProcessedOn(problem, answer, o, draw) ==
    Processed(problem, answer, o,
              process_answer_and_get_next(pure.ml, pure.registry, o.heap, problem,
                                          answer, o.objs, catalog, draw))

\* service.process_answer_and_get_next(problem, answer, states)
ProcessAnswer(problem, answer, draw) ==
    /\ pure.calls < MaxUpdates
    /\ pure' = ProcessedOn(problem, answer, Objects(pure.states), draw)
    /\ UNCHANGED <<sessions, attempts, catalog, hist, resp, user_state, proc>>

\* a state saved and loaded again: model_dump, then _deserialize_state
Reload(T) ==
    /\ pure.calls < MaxUpdates
    /\ T \in DOMAIN pure.states
    /\ LET o == Objects(pure.states)
           d == _deserialize_state(o.heap, model_dump(o.heap, o.objs[T]))
       IN  /\ StateValue(d.heap, d.obj) # pure.states[T]
           /\ pure' = [pure EXCEPT !.states[T] = StateValue(d.heap, d.obj),
                                   !.last = None]
    /\ UNCHANGED <<sessions, attempts, catalog, hist, resp, user_state, proc>>

NextMl ==
    \/ \E T \in MlTypeInputs, a \in MlAnswers : UpdateState(T, a[1], a[2])
    \/ \E T \in MlTypeInputs, a \in MlAnswers :
          ProcessAnswer(Problem(T, 0, a[1], <<>>), Answer(a[2], 0),
                        SampleDraw(FALSE, TRUE, 9, DrawAt(1, 0)))
    \/ \E T \in MlTypeInputs, c \in CorrectInputs, draw \in MlDraws :
          ProcessAnswer(Problem(T, 0, c, <<>>), None, draw)
    \/ \E draw \in MlDraws : ProcessAnswer(None, None, draw)
    \/ \E T \in MlTypeInputs : Reload(T)

SpecMl == InitMl /\ [][NextMl]_vars

--------------------------------------------------------------------------
(***************************************************************************)
(* ML layer: properties                                                    *)
(***************************************************************************)
IsMatrix(counts, n) ==
    /\ Len(counts) = n
    /\ \A i \in 1..n : Len(counts[i]) = n /\ \A j \in 1..n : counts[i][j] >= 0

\* the answered type's posterior before the call: the dict entry, or the
\* service's initial state when the dict has none
BasePosterior(T) ==
    IF T \in DOMAIN pure.last.before THEN pure.last.before[T]
    ELSE InitialValue(pure.ml, T)

\* C9: process_answer_and_get_next with an answer for type T replaces T's
\* posterior only: every other entry of the dict is the same object with
\* the same contents, also when the call raises; in the map a call returns
\* T's entry is its old posterior with one more observation.  Without an
\* answer the dict and its objects are unchanged and no update is reported.
\* No input object is modified.
C9_ProcessAnswerFrame ==
    (pure # None /\ pure.last # None /\ pure.last.op = "process") =>
    LET l == pure.last
        answered == l.problem # None /\ l.answer # None
        T == IF l.problem # None THEN l.problem.problem_type_id ELSE <<>>
    IN  /\ \A k \in DOMAIN l.before :
              (~answered \/ k # T) =>
                  /\ k \in DOMAIN l.after
                  /\ k \in l.same_objects
                  /\ l.after[k] = l.before[k]
        /\ \A k \in DOMAIN l.before : l.inputs_after[k] = l.before[k]
        /\ ~answered => (DOMAIN l.after = DOMAIN l.before /\ l.updates = <<>>)
        /\ (answered /\ l.raised = "") =>
              /\ DOMAIN l.after = (DOMAIN l.before) \cup {T}
              /\ Len(l.updates) = 1
              /\ LET base == BasePosterior(T)
                     n == base.n_classes
                 IN  /\ IsMatrix(l.after[T].counts, n)
                     /\ \E i \in 1..n, j \in 1..n :
                           l.after[T].counts =
                               [base.counts EXCEPT ![i][j] = @ + 1]

\* a ConfusionMLService call on LuceState posteriors has replaced tone_1's
\* entry, left tone_2's observations alone and sampled the next problem
C9_Witness ==
    /\ pure # None /\ pure.last # None /\ pure.last.op = "process"
    /\ pure.last.raised = ""
    /\ pure.ml = ConfusionMLService
    /\ pure.last.problem = Problem(tone_1, 0, <<2, 1>>, <<>>)
    /\ pure.last.answer = Answer(<<6, 2>>, 0)
    /\ pure.last.before[tone_1].cls = "LuceState"
    /\ pure.last.after[tone_1].counts[2][6] = pure.last.before[tone_1].counts[2][6] + 1
    /\ pure.last.after[tone_2] = pure.last.before[tone_2]
    /\ pure.last.before[tone_2] # InitialValue(LuceMLService(1), tone_2)
    /\ pure.last.next_problem # None

\* C10: update_state of either service, on an n x n non-negative state and
\* classes within 1..n, returns an n x n non-negative state that is the
\* input with cell [correct][selected] one higher, reports exactly that
\* change, and leaves the input object's matrix as it was.
C10_UpdateState ==
    (pure # None /\ pure.last # None /\ pure.last.op = "update_state") =>
    LET l == pure.last
        T == l.problem.problem_type_id
        input == l.before[T]
        n == input.n_classes
        inRange == /\ l.problem.correct_sequence # <<>>
                   /\ l.answer.selected_sequence # <<>>
                   /\ l.problem.correct_sequence[1] \in 1..n
                   /\ l.answer.selected_sequence[1] \in 1..n
    IN  (IsMatrix(input.counts, n) /\ inRange) =>
        LET c == l.problem.correct_sequence[1]
            sel == l.answer.selected_sequence[1]
        IN  /\ l.raised = ""
            /\ l.after[T].n_classes = n
            /\ IsMatrix(l.after[T].counts, n)
            /\ l.after[T].counts = [input.counts EXCEPT ![c][sel] = @ + 1]
            /\ l.updates =
                  << [ tracker_id |-> "counts[" \o ToString(c) \o "]["
                                      \o ToString(sel) \o "]",
                       old_value |-> input.counts[c][sel],
                       new_value |-> input.counts[c][sel] + 1 ] >>
            /\ l.inputs_after[T] = input

\* ConfusionMLService.update_state on a LuceState with one answer at [6][6]
\* has returned a LuceState with two and reported the change
C10_Witness ==
    /\ pure # None /\ pure.last # None /\ pure.last.op = "update_state"
    /\ pure.ml = ConfusionMLService
    /\ pure.last.before[tone_2].cls = "LuceState"
    /\ pure.last.problem.problem_type_id = tone_2
    /\ pure.last.updates = << [tracker_id |-> "counts[6][6]", old_value |-> 1,
                               new_value |-> 2] >>
    /\ pure.last.after[tone_2].cls = "LuceState"
    /\ pure.last.after[tone_2].counts[6][6] = 2
    /\ pure.last.inputs_after[tone_2].counts[6][6] = 1

--------------------------------------------------------------------------
(***************************************************************************)
(* Persistence.  user_state holds the committed rows of the UserState      *)
(* table.  A request runs as a coroutine: each database operation it       *)
(* awaits is one step, together with the synchronous code that follows it. *)
(***************************************************************************)
Requests == {"r1", "r2"}

\* the locals of a coroutine that is not running
IdleReq ==
    [ pc |-> "idle", endpoint |-> "", user_id |-> "", session_id |-> None,
      body |-> None, lesson_id |-> <<>>, began |-> 0,
      service |-> None, problem_types |-> <<>>, identity |-> EmptyDict,
      states |-> EmptyDict, load_queue |-> <<>>, save_queue |-> <<>>,
      job |-> None, found |-> 0, loaded |-> None, retries |-> 0, error |-> "",
      result |-> "" ]

UserStateRow(user_id, problem_type_id, state_json) ==
    [user_id |-> user_id, problem_type_id |-> problem_type_id,
     state_json |-> state_json]

\* the place of a deleted row: a row is known by its position (its primary
\* key is a uuid that is never given to another row)
DeletedRow == UserStateRow("", <<>>, None)

\* positions of the rows a select on (user_id, problem_type_id) returns
SelectUserState(table, user_id, problem_type_id) ==
    {i \in DOMAIN table : /\ table[i].user_id = user_id
                          /\ table[i].problem_type_id = problem_type_id}

\* a table without the unique constraint
UniqueViolation_off(table, user_id, problem_type_id) == FALSE

\* UniqueConstraint("user_id", "problem_type_id") at the commit of an insert
UniqueViolation(table, user_id, problem_type_id) ==
    SelectUserState(table, user_id, problem_type_id) # {}

\* app.config.settings: the attributes of the Settings object
settings ==
    [ SECRET_KEY |-> "secret", ALGORITHM |-> "HS256",
      ACCESS_TOKEN_EXPIRE_MINUTES |-> 15, REFRESH_TOKEN_EXPIRE_DAYS |-> 30,
      DATABASE_URL |-> "sqlite+aiosqlite:///./data/app.db",
      ALLOWED_ORIGINS |->
          "http://localhost:5173,http://127.0.0.1:5173,http://localhost:8081,http://localhost:8082,http://127.0.0.1:8081,http://127.0.0.1:8082" ]

\* ml.get_ml_service: reading an attribute that Settings does not define
\* raises AttributeError; get_luce_service has no learning_rate parameter
get_ml_service ==
    IF "ML_SERVICE_TYPE" \notin DOMAIN settings
    THEN [raised |-> "AttributeError", service |-> None]
    ELSE IF settings.ML_SERVICE_TYPE = "luce"
    THEN IF "ML_LEARNING_RATE" \notin DOMAIN settings
         THEN [raised |-> "AttributeError", service |-> None]
         ELSE [raised |-> "TypeError", service |-> None]
    ELSE [raised |-> "", service |-> ConfusionMLService]

\* get_drill_service on the module's singleton _tone_service (None, or the
\* DrillService, held as its self.ml): the singleton is built on first
\* use, and DrillService.__init__ calls get_ml_service; when that raises
\* the singleton stays unset and the next call builds again
get_drill_service(tone_service) ==
    IF tone_service = None THEN get_ml_service
    ELSE [raised |-> "", service |-> tone_service]

\* get_lesson_service: LessonService.__init__ calls get_drill_service, then
\* get_ml_service
get_lesson_service(tone_service) ==
    IF get_drill_service(tone_service).raised # ""
    THEN get_drill_service(tone_service)
    ELSE get_ml_service

\* The AsyncSession of a request keeps the objects it has loaded (its
\* identity map): identity[i] is the state_json held by the session's object
\* for row i.  A select that returns a row already in the map returns that
\* object with the attributes it has; the sessions are made with
\* expire_on_commit=False, so a commit leaves them as they are.
SessionRow(table, identity, i) ==
    IF i \in DOMAIN identity THEN identity[i] ELSE table[i].state_json

\* load_state: select ... scalar_one_or_none(); the stored posterior, or
\* get_ml_service().get_initial_state(problem_type_id).  Returned with the
\* session's identity map and the registry afterwards.
load_state(table, identity, registry, user_id, problem_type_id) ==
    LET found == SelectUserState(table, user_id, problem_type_id)
    IN  IF Cardinality(found) > 1
        THEN [raised |-> "MultipleResultsFound", state |-> None,
              identity |-> identity, registry |-> registry]
        ELSE IF found = {}
        THEN IF get_ml_service.raised # ""
             THEN [raised |-> get_ml_service.raised, state |-> None,
                   identity |-> identity, registry |-> registry]
             ELSE LET r == ml_get_initial_state(get_ml_service.service, registry,
                                                <<>>, problem_type_id)
                  IN  [raised |-> r.raised,
                       state |-> IF r.raised # "" THEN None
                                 ELSE StateValue(r.heap, r.obj),
                       identity |-> identity, registry |-> r.registry]
        ELSE LET i == CHOOSE i \in found : TRUE
                 state_json == SessionRow(table, identity, i)
                 d == _deserialize_state(<<>>, state_json)
             IN  [raised |-> "", state |-> StateValue(d.heap, d.obj),
                  identity |-> DictSet(identity, i, state_json),
                  registry |-> registry]

\* state.model_dump() of a state held by value
DumpValue(v) ==
    LET o == Objects(DictSet(EmptyDict, tone_1, v))
    IN  model_dump(o.heap, o.objs[tone_1])

\* the coroutine p with new locals
SetReq(p, r) == [proc EXCEPT !.req[p] = r]

\* save_state returns: the caller goes on with its next save, or ends
AfterSave(r) ==
    IF r.save_queue # <<>>
    THEN [r EXCEPT !.pc = "save_select",
                   !.job = [problem_type_id |-> Head(r.save_queue),
                            state_json |-> DumpValue(r.states[Head(r.save_queue)])],
                   !.save_queue = Tail(@),
                   !.found = 0, !.loaded = None]
    ELSE [r EXCEPT !.pc = "saved", !.job = None, !.loaded = None]

\* the select of save_state found row i: the session's object for it
Selected(r, i) ==
    [r EXCEPT !.pc = "save_update", !.found = i,
              !.loaded = SessionRow(user_state, r.identity, i),
              !.identity = DictSet(@, i, SessionRow(user_state, r.identity, i))]

\* save_state: select ... scalar_one_or_none()
SaveSelect(p) ==
    LET r == proc.req[p]
        found == SelectUserState(user_state, r.user_id, r.job.problem_type_id)
    IN  /\ r.pc = "save_select"
        /\ proc' = SetReq(p,
              IF Cardinality(found) > 1
              THEN [r EXCEPT !.pc = "raised", !.error = "MultipleResultsFound"]
              ELSE IF found = {}
              THEN [r EXCEPT !.pc = "save_insert", !.found = 0, !.loaded = None]
              ELSE Selected(r, CHOOSE i \in found : TRUE))
        /\ UNCHANGED <<sessions, attempts, catalog, hist, resp, user_state, pure>>

\* save_state: session.add(user_state); await session.commit()
SaveInsert(p) ==
    LET r == proc.req[p]
        key == <<r.user_id, r.job.problem_type_id>>
    IN  /\ r.pc = "save_insert"
        /\ IF UniqueViolation(user_state, r.user_id, r.job.problem_type_id)
           THEN /\ proc' = SetReq(p, [r EXCEPT !.pc = "save_rollback"])
                /\ UNCHANGED user_state
           ELSE /\ user_state' = Append(user_state,
                      UserStateRow(r.user_id, r.job.problem_type_id, r.job.state_json))
                /\ proc' = [SetReq(p, AfterSave([r EXCEPT !.identity =
                                 DictSet(@, Len(user_state) + 1, r.job.state_json)]))
                            EXCEPT !.last_commit = DictSet(@, key, r.job.state_json)]
        /\ UNCHANGED <<sessions, attempts, catalog, hist, resp, pure>>

\* save_state: except IntegrityError: await session.rollback().  A
\* rollback expires every object of the session: the next select reads the
\* rows anew.
SaveRollback(p) ==
    LET r == proc.req[p]
    IN  /\ r.pc = "save_rollback"
        /\ proc' = SetReq(p, [r EXCEPT !.pc = "save_reselect", !.retries = @ + 1,
                                       !.identity = EmptyDict])
        /\ UNCHANGED <<sessions, attempts, catalog, hist, resp, user_state, pure>>

\* save_state: the second select ... scalar_one()
SaveReselect(p) ==
    LET r == proc.req[p]
        found == SelectUserState(user_state, r.user_id, r.job.problem_type_id)
    IN  /\ r.pc = "save_reselect"
        /\ proc' = SetReq(p,
              IF Cardinality(found) # 1
              THEN [r EXCEPT !.pc = "raised",
                             !.error = IF found = {} THEN "NoResultFound"
                                       ELSE "MultipleResultsFound"]
              ELSE Selected(r, CHOOSE i \in found : TRUE))
        /\ UNCHANGED <<sessions, attempts, catalog, hist, resp, user_state, pure>>

\* save_state: user_state.state_json = ...; user_state.updated_at = ...;
\* await session.commit().  The unit of work writes state_json when its value
\* differs from the one the session's object held; the UPDATE of a row that
\* has been deleted matches no row and the commit raises StaleDataError.
SaveUpdate(p) ==
    LET r == proc.req[p]
        key == <<r.user_id, r.job.problem_type_id>>
    IN  /\ r.pc = "save_update"
        /\ IF user_state[r.found] = DeletedRow
           THEN /\ proc' = SetReq(p, [r EXCEPT !.pc = "raised",
                                               !.error = "StaleDataError"])
                /\ UNCHANGED user_state
           ELSE /\ user_state' =
                      IF r.job.state_json # r.loaded
                      THEN [user_state EXCEPT ![r.found].state_json = r.job.state_json]
                      ELSE user_state
                /\ proc' = [SetReq(p, AfterSave([r EXCEPT !.identity =
                                 DictSet(@, r.found, r.job.state_json)]))
                            EXCEPT !.last_commit = DictSet(@, key, r.job.state_json)]
        /\ UNCHANGED <<sessions, attempts, catalog, hist, resp, pure>>

\* delete_state: select ... scalar_one_or_none(); return False without a row
DeleteSelect(p) ==
    LET r == proc.req[p]
        found == SelectUserState(user_state, r.user_id, r.job.problem_type_id)
    IN  /\ r.pc = "delete_select"
        /\ proc' = SetReq(p,
              IF Cardinality(found) > 1
              THEN [r EXCEPT !.pc = "raised", !.error = "MultipleResultsFound"]
              ELSE IF found = {}
              THEN [r EXCEPT !.pc = "returned", !.result = "False"]
              ELSE [r EXCEPT !.pc = "delete_commit",
                             !.found = CHOOSE i \in found : TRUE])
        /\ UNCHANGED <<sessions, attempts, catalog, hist, resp, user_state, pure>>

\* delete_state: await session.delete(user_state); await session.commit();
\* return True.  A DELETE that matches no row (the row is gone already) is a
\* warning of the unit of work, not an error.
DeleteCommit(p) ==
    LET r == proc.req[p]
        key == <<r.user_id, r.job.problem_type_id>>
    IN  /\ r.pc = "delete_commit"
        /\ user_state' = [user_state EXCEPT ![r.found] = DeletedRow]
        /\ proc' = [SetReq(p, [r EXCEPT !.pc = "returned", !.result = "True"]) EXCEPT
              !.last_commit = IF user_state[r.found] = DeletedRow THEN @
                              ELSE [k \in (DOMAIN @) \ {key} |-> @[k]]]
        /\ UNCHANGED <<sessions, attempts, catalog, hist, resp, pure>>

--------------------------------------------------------------------------
(***************************************************************************)
(* save_state and delete_state called by two coroutines, one call each, on *)
(* a table that is empty or holds one row                                  *)
(***************************************************************************)
\* observations a saved posterior may hold
MaxCount == 2

\* a LuceState with k answers recorded at [1][1]
SavedValue(problem_type_id, observations) ==
    LET initial == InitialValue(LuceMLService(1), problem_type_id)
    IN  [initial EXCEPT !.counts =
            [i \in 1..Len(initial.counts) |->
                [j \in 1..Len(initial.counts[i]) |->
                    IF i = 1 /\ j = 1 THEN observations ELSE initial.counts[i][j]]]]

InitProc ==
    [ req |-> [p \in Requests |-> IdleReq], started |-> 0, clock |-> 0,
      registry |-> PROBLEM_TYPES, tone_service |-> None,
      last_commit |-> EmptyDict, observed |-> EmptyDict, overlap |-> FALSE ]

\* the row of a posterior stored earlier
StoredRow == UserStateRow("u1", tone_1, DumpValue(SavedValue(tone_1, 0)))

InitSave ==
    /\ sessions = [sid \in SessionIds |-> None]
    /\ attempts = <<>>
    /\ catalog = CatalogFull
    /\ hist = [sid \in SessionIds |-> NoHist]
    /\ resp = None
    /\ \/ /\ user_state = <<>>
          /\ proc = InitProc
       \/ /\ user_state = <<StoredRow>>
          /\ proc = [InitProc EXCEPT !.last_commit =
                        DictSet(EmptyDict, <<StoredRow.user_id, StoredRow.problem_type_id>>,
                                StoredRow.state_json)]
    /\ pure = None

\* await save_state(session, user_id, problem_type_id, state)
SaveCall(p, user_id, problem_type_id, k) ==
    LET r == proc.req[p]
    IN  /\ r.pc = "idle"
        /\ r.endpoint = ""
        /\ proc' = [SetReq(p, [r EXCEPT
                       !.pc = "save_select", !.endpoint = "save_state",
                       !.user_id = user_id,
                       !.states = DictSet(EmptyDict, problem_type_id,
                                          SavedValue(problem_type_id, k)),
                       !.job = [problem_type_id |-> problem_type_id,
                                state_json |-> DumpValue(SavedValue(problem_type_id, k))]])
                    EXCEPT !.started = @ + 1]
        /\ UNCHANGED <<sessions, attempts, catalog, hist, resp, user_state, pure>>

\* await delete_state(session, user_id, problem_type_id)
DeleteCall(p, user_id, problem_type_id) ==
    LET r == proc.req[p]
    IN  /\ r.pc = "idle"
        /\ r.endpoint = ""
        /\ proc' = [SetReq(p, [r EXCEPT
                       !.pc = "delete_select", !.endpoint = "delete_state",
                       !.user_id = user_id,
                       !.job = [problem_type_id |-> problem_type_id,
                                state_json |-> None]])
                    EXCEPT !.started = @ + 1]
        /\ UNCHANGED <<sessions, attempts, catalog, hist, resp, user_state, pure>>

\* the call returns to its caller
SaveReturn(p) ==
    LET r == proc.req[p]
    IN  /\ r.pc = "saved"
        /\ r.endpoint = "save_state"
        /\ proc' = SetReq(p, [r EXCEPT !.pc = "returned"])
        /\ UNCHANGED <<sessions, attempts, catalog, hist, resp, user_state, pure>>

NextSave ==
    \/ \E p \in Requests, u \in UserIds, T \in {tone_1, tone_2}, k \in 0..MaxCount :
          SaveCall(p, u, T, k)
    \/ \E p \in Requests : SaveSelect(p)
    \/ \E p \in Requests : SaveInsert(p)
    \/ \E p \in Requests : SaveRollback(p)
    \/ \E p \in Requests : SaveReselect(p)
    \/ \E p \in Requests : SaveUpdate(p)
    \/ \E p \in Requests : SaveReturn(p)
    \/ \E p \in Requests, u \in UserIds, T \in {tone_1, tone_2} :
          DeleteCall(p, u, T)
    \/ \E p \in Requests : DeleteSelect(p)
    \/ \E p \in Requests : DeleteCommit(p)

SpecSave == InitSave /\ [][NextSave]_vars

--------------------------------------------------------------------------
(***************************************************************************)
(* save_state: properties                                                  *)
(***************************************************************************)
\* a select that found a record
FoundRecord(r) == r.found # 0 /\ r.retries = 0

\* C8: two save_state calls whose first select finds no record both end
\* without an error and with at most one retry each; a key that was
\* committed has exactly one row, and that row holds the state of the last
\* committer.
C8_SaveRace ==
    (/\ proc # None
     /\ \A p \in Requests : /\ proc.req[p].endpoint \in {"", "save_state"}
                            /\ ~FoundRecord(proc.req[p])) =>
    /\ \A p \in Requests : proc.req[p].pc # "raised" /\ proc.req[p].retries <= 1
    /\ \A key \in DOMAIN proc.last_commit :
          LET found == SelectUserState(user_state, key[1], key[2])
          IN  /\ Cardinality(found) = 1
              /\ \A i \in found : user_state[i].state_json = proc.last_commit[key]
    /\ \A i \in DOMAIN user_state :
          <<user_state[i].user_id, user_state[i].problem_type_id>>
              \in DOMAIN proc.last_commit

C8_Witness ==
    /\ proc # None
    /\ \A p \in Requests : proc.req[p].pc = "returned"
    /\ proc.req["r1"].retries = 0
    /\ proc.req["r2"].retries = 1
    /\ Len(user_state) = 1
    /\ user_state[1].state_json = DumpValue(SavedValue(tone_1, 2))
    /\ proc.req["r1"].states = DictSet(EmptyDict, tone_1, SavedValue(tone_1, 1))
    /\ proc.req["r2"].states = DictSet(EmptyDict, tone_1, SavedValue(tone_1, 2))

--------------------------------------------------------------------------
(***************************************************************************)
(* The HTTP API: /drill/next, /lesson/start, /lesson/first/{session_id}    *)
(* and /lesson/next, handled by coroutines that share the database and the *)
(* lesson service's session table.                                         *)
(***************************************************************************)
\* requests handled in one run
MaxRequests == 2

\* session ids are "{user_id}_{uuid}": the user and a token
Tokens == {"a", "b"}
ApiSessionIds == UserIds \X Tokens

\* the keyword parameters of routers/drill.log_attempt
log_attempt_params ==
    { "session", "user_id", "problem_type_id", "word_id", "vietnamese",
      "correct_sequence", "alternatives", "selected_sequence", "is_correct",
      "response_time_ms", "voice", "speed" }

\* log_attempt(**kwargs): Python raises TypeError on an unexpected keyword;
\* otherwise a DrillAttempt row (lesson_id defaults to NULL) is committed
log_attempt(log, kwargs) ==
    IF ~((DOMAIN kwargs) \subseteq log_attempt_params)
    THEN [raised |-> "TypeError", log |-> log]
    ELSE [raised |-> "",
          log |-> Append(log,
                     [ user_id |-> kwargs.user_id,
                       problem_type_id |-> kwargs.problem_type_id,
                       correct_sequence |-> kwargs.correct_sequence,
                       selected_sequence |-> kwargs.selected_sequence,
                       is_correct |-> kwargs.is_correct,
                       response_time_ms |-> kwargs.response_time_ms,
                       lesson_id |-> <<>> ])]

\* PreviousAnswer bodies of /drill/next: response_time_ms is optional (<<>>
\* for None); one body names a class beyond the six tones, the last a type
\* that /drill/next does not load
PreviousAnswers ==
    { [problem_type_id |-> tone_1, correct_sequence |-> <<1>>,
       selected_sequence |-> <<1>>, response_time_ms |-> <<850>>],
      [problem_type_id |-> tone_1, correct_sequence |-> <<1>>,
       selected_sequence |-> <<1>>, response_time_ms |-> <<>>],
      [problem_type_id |-> tone_1, correct_sequence |-> <<1>>,
       selected_sequence |-> <<2>>, response_time_ms |-> <<850>>],
      [problem_type_id |-> tone_2, correct_sequence |-> <<2, 1>>,
       selected_sequence |-> <<2, 1>>, response_time_ms |-> <<850>>],
      [problem_type_id |-> tone_1, correct_sequence |-> <<1>>,
       selected_sequence |-> <<7>>, response_time_ms |-> <<850>>],
      [problem_type_id |-> vowel_1, correct_sequence |-> <<1>>,
       selected_sequence |-> <<1>>, response_time_ms |-> <<850>>] }

\* SubmitLessonAnswerRequest bodies of /lesson/next
LessonAnswers ==
    { [correct_sequence |-> <<1>>, selected_sequence |-> <<1>>,
       mode |-> TWO_CHOICE_1SYL, response_time_ms |-> <<850>>],
      [correct_sequence |-> <<1>>, selected_sequence |-> <<2>>,
       mode |-> TWO_CHOICE_1SYL, response_time_ms |-> <<850>>] }

\* pa.response_time_ms or 0
OrZero(optional) == IF optional = <<>> THEN 0 ELSE optional[1]

Response(r, status, error) ==
    [ endpoint |-> r.endpoint, user_id |-> r.user_id, session_id |-> r.session_id,
      status |-> status, error |-> error, is_complete |-> FALSE, drill |-> None,
      summary |-> None, lesson_id |-> <<>>, theme_id |-> <<>>, theme_pairs |-> <<>>,
      logged |-> FALSE ]

InitApi ==
    /\ sessions = [sid \in ApiSessionIds |-> None]
    /\ attempts = <<>>
    /\ catalog = CatalogFull
    /\ hist = [sid \in ApiSessionIds |-> None]
    /\ resp = None
    /\ user_state = <<>>
    /\ proc = InitProc
    /\ pure = None

\* a request arrives: its dependencies (the database session, the current
\* user) are resolved and the handler is about to run
BeginRequest(p, endpoint, user_id, session_id, body) ==
    LET r == proc.req[p]
    IN  /\ r.pc = "idle"
        /\ proc.started < MaxRequests
        /\ proc' = [SetReq(p, [IdleReq EXCEPT
                       !.pc = "entry", !.endpoint = endpoint, !.user_id = user_id,
                       !.session_id = session_id, !.body = body,
                       !.began = proc.clock + 1])
                    EXCEPT !.started = @ + 1, !.clock = @ + 1,
                           !.overlap = @ \/ \E q \in Requests : proc.req[q].pc # "idle"]
        /\ UNCHANGED <<sessions, attempts, catalog, hist, resp, user_state, pure>>

\* the request ends with a response (an exception that leaves the handler
\* is answered with status 500); observed counts the ended /drill/next
\* requests that carried an answer, by user and problem type
FinishWith(p, response, registry) ==
    LET r == proc.req[p]
        answered == r.endpoint = "drill_next" /\ r.body # None
        key == IF answered THEN <<r.user_id, r.body.problem_type_id>> ELSE <<>>
    IN  /\ resp' = response
        /\ proc' = [SetReq(p, IdleReq) EXCEPT
              !.clock = @ + 1,
              !.registry = registry,
              !.observed = IF answered
                           THEN DictSet(@, key, IF key \in DOMAIN @ THEN @[key] + 1 ELSE 1)
                           ELSE @]

Finish(p, response) == FinishWith(p, response, proc.registry)

\* the first statement of every handler: get_drill_service("tone") in
\* /drill/next, get_lesson_service() in the lesson handlers.  /lesson/next
\* then reads the session's lesson_id.
HandlerEntry(p) ==
    LET r == proc.req[p]
        service == IF r.endpoint = "drill_next"
                   THEN get_drill_service(proc.tone_service)
                   ELSE get_lesson_service(proc.tone_service)
        lesson_state == IF r.endpoint = "lesson_next" THEN sessions[r.session_id]
                        ELSE None
        problem_types == get_problem_types_for_drill(proc.registry, "tone")
    IN  /\ r.pc = "entry"
        /\ IF service.raised # ""
           THEN Finish(p, Response(r, 500, service.raised))
           ELSE /\ proc' = [SetReq(p, [r EXCEPT
                      !.pc = IF problem_types = <<>> THEN "loaded" ELSE "load",
                      !.service = service.service,
                      !.lesson_id = IF lesson_state # None
                                    THEN <<lesson_state.lesson_id>> ELSE <<>>,
                      !.problem_types = problem_types,
                      !.load_queue = RegistryKeys(problem_types)])
                            EXCEPT !.tone_service = service.service]
                /\ UNCHANGED resp
        /\ UNCHANGED <<sessions, attempts, catalog, hist, user_state, pure>>

\* states[pt.problem_type_id] = await load_state(...)
LoadState(p) ==
    LET r == proc.req[p]
        T == Head(r.load_queue)
        loaded == load_state(user_state, r.identity, proc.registry, r.user_id, T)
    IN  /\ r.pc = "load"
        /\ IF loaded.raised # ""
           THEN FinishWith(p, Response(r, 500, loaded.raised), loaded.registry)
           ELSE /\ proc' = [SetReq(p, [r EXCEPT
                      !.states = DictSet(@, T, loaded.state),
                      !.identity = loaded.identity,
                      !.load_queue = Tail(@),
                      !.pc = IF Tail(r.load_queue) = <<>> THEN "loaded" ELSE "load"])
                            EXCEPT !.registry = loaded.registry]
                /\ UNCHANGED resp
        /\ UNCHANGED <<sessions, attempts, catalog, hist, user_state, pure>>

\* the saves a /drill/next handler makes: for problem_type_id, state in
\* updated_states.items(), if the id is one of problem_types.  The dict
\* holds the loaded types in the order of problem_types, then the answered
\* type if it was not loaded.
SaveQueue(states, problem_types) ==
    SelectSeq(RegistryKeys(problem_types), LAMBDA T : T \in DOMAIN states)

\* the call of process_answer_and_get_next on the loaded states o
DrillProcess(r, o, problem, answer, draw) ==
    process_answer_and_get_next(r.service, proc.registry, o.heap, problem, answer,
                                o.objs, catalog, draw)

\* the request with updated_states, the states of res by value, to save
DrillUpdated(r, updated) ==
    AfterSave([r EXCEPT !.states = updated,
                        !.save_queue = SaveQueue(updated, r.problem_types)])
DrillStates(r, res) ==
    DrillUpdated(r, [k \in DOMAIN res.states |-> StateValue(res.heap, res.states[k])])

\* /drill/next after process_answer_and_get_next returned res or raised
DrillAnswered(p, r, res) ==
    IF res.raised # ""
    THEN FinishWith(p, Response(r, 500, res.raised), res.registry)
    ELSE /\ proc' = [SetReq(p, DrillStates(r, res)) EXCEPT !.registry = res.registry]
         /\ UNCHANGED resp

\* /drill/next with a previous answer: log_attempt commits, then
\* process_answer_and_get_next runs on the loaded states
DrillLogAttempt(p, draw) ==
    LET r == proc.req[p]
        pa == r.body
        lg == log_attempt(attempts,
                 [ user_id |-> r.user_id, problem_type_id |-> pa.problem_type_id,
                   correct_sequence |-> pa.correct_sequence,
                   selected_sequence |-> pa.selected_sequence,
                   is_correct |-> (pa.selected_sequence = pa.correct_sequence),
                   response_time_ms |-> pa.response_time_ms ])
    IN  /\ r.pc = "loaded" /\ r.endpoint = "drill_next" /\ pa # None
        /\ attempts' = lg.log
        /\ DrillAnswered(p, r,
               DrillProcess(r, Objects(r.states),
                   Problem(pa.problem_type_id, 0, pa.correct_sequence, <<>>),
                   Answer(pa.selected_sequence, OrZero(pa.response_time_ms)), draw))
        /\ UNCHANGED <<sessions, catalog, hist, user_state, pure>>

\* /drill/next without a previous answer
DrillNoAnswer(p, draw) ==
    LET r == proc.req[p]
    IN  /\ r.pc = "loaded" /\ r.endpoint = "drill_next" /\ r.body = None
        /\ DrillAnswered(p, r, DrillProcess(r, Objects(r.states), None, None, draw))
        /\ UNCHANGED <<sessions, attempts, catalog, hist, user_state, pure>>

\* /drill/next after its saves: get_ml_service() raises AttributeError
\* (and building DrillResponse would read next_problem.english, which
\* Problem does not have)
DrillRespond(p) ==
    LET r == proc.req[p]
    IN  /\ r.pc = "saved" /\ r.endpoint = "drill_next"
        /\ Finish(p, Response(r, 500, "AttributeError"))
        /\ UNCHANGED <<sessions, attempts, catalog, hist, user_state, pure>>

\* /lesson/start after the loads: a new session id, then
\* service.start_lesson up to its await of get_next_lesson_id
LessonStart(p, token) ==
    LET r == proc.req[p]
        sid == <<r.user_id, token>>
    IN  /\ r.pc = "loaded" /\ r.endpoint = "lesson_start"
        /\ sessions[sid] = None
        /\ \A q \in Requests :
              proc.req[q].pc = "lesson_id" => proc.req[q].session_id # sid
        /\ proc' = SetReq(p, [r EXCEPT
              !.pc = "lesson_id", !.session_id = sid,
              !.lesson_id = <<get_next_lesson_id(attempts, r.user_id)>>])
        /\ UNCHANGED <<sessions, attempts, catalog, hist, resp, user_state, pure>>

\* service.start_lesson resumed: the LessonState is stored and the handler
\* answers with its lesson_id and theme
LessonStartResume(p, k) ==
    LET r == proc.req[p]
        lesson == start_lesson_resumed(r.service, proc.registry, r.lesson_id[1],
                                       r.body.theme_id, r.states, k)
    IN  /\ r.pc = "lesson_id" /\ r.endpoint = "lesson_start"
        /\ sessions' = [sessions EXCEPT ![r.session_id] = lesson]
        /\ Finish(p, [Response(r, 200, "") EXCEPT
                         !.lesson_id = <<lesson.lesson_id>>,
                         !.theme_id = <<lesson.theme_id>>,
                         !.theme_pairs = lesson.theme_pairs])
        /\ UNCHANGED <<attempts, catalog, hist, user_state, pure>>

\* /lesson/first: get_next_drill; a drill response reads problem.english
LessonFirst(p, tape) ==
    LET r == proc.req[p]
        g == get_next_drill(sessions[r.session_id], catalog, DrawAt(tape, 0))
    IN  /\ r.pc = "loaded" /\ r.endpoint = "lesson_first"
        /\ sessions' = [sessions EXCEPT ![r.session_id] = g.state]
        /\ Finish(p, IF g.result = None
                     THEN [Response(r, 200, "") EXCEPT !.is_complete = TRUE]
                     ELSE Response(r, 500, "AttributeError"))
        /\ UNCHANGED <<attempts, catalog, hist, user_state, pure>>

\* /lesson/next: the handler calls log_attempt(..., lesson_id=lesson_id);
\* the call raises and the statements after it do not run
LessonNext(p) ==
    LET r == proc.req[p]
        lg == log_attempt(attempts,
                 [ user_id |-> r.user_id,
                   problem_type_id |->
                       make_problem_type_id("tone", Len(r.body.correct_sequence)),
                   correct_sequence |-> r.body.correct_sequence,
                   selected_sequence |-> r.body.selected_sequence,
                   is_correct |-> (r.body.selected_sequence = r.body.correct_sequence),
                   response_time_ms |-> r.body.response_time_ms,
                   lesson_id |-> r.lesson_id ])
    IN  /\ r.pc = "loaded" /\ r.endpoint = "lesson_next"
        /\ lg.raised # ""
        /\ attempts' = lg.log
        /\ Finish(p, [Response(r, 500, lg.raised) EXCEPT !.lesson_id = r.lesson_id])
        /\ UNCHANGED <<sessions, catalog, hist, user_state, pure>>

\* the random outcomes of the sampler in a handler
HandlerDraws ==
    { SampleDraw(pv, TRUE, 1, DrawAt(1, 0)) : pv \in BOOLEAN }

\* the handler of request p runs from where it stands to its next await,
\* or to its end
Handler(p) ==
    IF proc.req[p].pc = "entry"
    THEN HandlerEntry(p)
    ELSE \/ LoadState(p)
         \/ \E draw \in HandlerDraws : DrillLogAttempt(p, draw)
         \/ \E draw \in HandlerDraws : DrillNoAnswer(p, draw)
         \/ SaveSelect(p)
         \/ SaveInsert(p)
         \/ SaveRollback(p)
         \/ SaveReselect(p)
         \/ SaveUpdate(p)
         \/ DrillRespond(p)
         \/ \E token \in Tokens : LessonStart(p, token)
         \/ \E k \in 1..NPlans : LessonStartResume(p, PlanDraws[k])
         \/ \E tape \in 1..NTapes : LessonFirst(p, tape)
         \/ LessonNext(p)

NextApi ==
    \/ \E p \in Requests, u \in UserIds, pa \in PreviousAnswers \cup {None} :
          BeginRequest(p, "drill_next", u, None, pa)
    \/ \E p \in Requests, u \in UserIds, t \in ThemeInputs :
          BeginRequest(p, "lesson_start", u, None, [theme_id |-> t])
    \/ \E p \in Requests, u \in UserIds, sid \in ApiSessionIds :
          BeginRequest(p, "lesson_first", u, sid, None)
    \/ \E p \in Requests, u \in UserIds, sid \in ApiSessionIds, a \in LessonAnswers :
          BeginRequest(p, "lesson_next", u, sid, a)
    \/ \E p \in Requests : Handler(p)

SpecApi == InitApi /\ [][NextApi]_vars

--------------------------------------------------------------------------
(***************************************************************************)
(* The HTTP API: properties                                                *)
(***************************************************************************)
\* answers recorded in a stored posterior that started from zero counts
Observations(state_json) ==
    SeqSum([i \in 1..Len(state_json.counts) |-> SeqSum(state_json.counts[i])])

\* C5: every response of /lesson/next is a drill, or a completion carrying
\* a summary whose accuracy is 100 * (total - mistakes) / total and lies in
\* 0..100, and after a completion the session is no longer in the session
\* table; unknown and completed session ids included.
C5_LessonNextResponse ==
    (resp # None /\ resp.endpoint = "lesson_next") =>
        /\ resp.status = 200
        /\ \/ resp.drill # None
           \/ /\ resp.is_complete
              /\ resp.summary # None
              /\ resp.summary.accuracy * resp.summary.total_drills =
                    100 * (resp.summary.total_drills - resp.summary.mistakes_count)
              /\ resp.summary.accuracy \in 0..100
              /\ sessions[resp.session_id] = None

--------------------------------------------------------------------------
(***************************************************************************)
(* Lessons of one user side by side: start_lesson under two session ids,   *)
(* and the way get_lesson_next handles an answer on a constructed service: *)
(* log_attempt with the session's lesson_id, then record_answer.           *)
(***************************************************************************)
\* get_lesson_next from its log_attempt call to record_answer, for the
\* drill the caller was served
LogLessonAnswer(sid, is_correct) ==
    LET h == hist[sid]
        lesson_state == sessions[sid]
        lesson_id == IF lesson_state # None THEN <<lesson_state.lesson_id>> ELSE <<>>
        drill == AnsweredDrill(h)
        wrong == WrongChoices(drill.problem)
        selected == IF is_correct THEN drill.problem.correct_sequence ELSE wrong[1]
        lg == log_attempt(attempts,
                 [ user_id |-> h.user_id,
                   problem_type_id |->
                       make_problem_type_id("tone", Len(drill.problem.correct_sequence)),
                   correct_sequence |-> drill.problem.correct_sequence,
                   selected_sequence |-> selected,
                   is_correct |-> is_correct,
                   response_time_ms |-> <<850>>,
                   lesson_id |-> lesson_id ])
    IN  /\ h.pending
        /\ ~is_correct => wrong # <<>>
        /\ attempts' = lg.log
        /\ resp' = [ endpoint |-> "lesson_next", session_id |-> sid,
                     user_id |-> h.user_id, error |-> lg.raised,
                     lesson_id |-> lesson_id ]
        /\ IF lg.raised # ""
           THEN UNCHANGED <<sessions, hist>>
           ELSE /\ sessions' = [sessions EXCEPT ![sid] =
                      record_answer(@, drill.problem, drill.mode, selected, is_correct)]
                /\ hist' = [hist EXCEPT ![sid] =
                      [h EXCEPT !.answers = @ + 1, !.pending = FALSE,
                                !.last_answer = IF is_correct THEN "right" ELSE "wrong"]]
        /\ UNCHANGED <<catalog, user_state, proc, pure>>

NextLessonLog ==
    \/ \E sid \in SessionIds, u \in UserIds, arg \in StartInputs :
          StartLesson(sid, u, arg[1], arg[2], 0)
    \/ \E sid \in SessionIds : StartLessonResume(sid, PlanDraws[1], 1)
    \/ \E sid \in SessionIds : GetNextDrill(sid, 0)
    \/ \E sid \in SessionIds, ok \in BOOLEAN : LogLessonAnswer(sid, ok)

SpecLessonLog == InitLesson /\ [][NextLessonLog]_vars

\* C6: two lessons of one user, held under different session ids, have
\* different lesson_ids; and the attempt logged for an answer inside a
\* lesson carries the lesson's id.
C6_FreshLessonIds ==
    /\ \A a \in SessionIds, b \in SessionIds :
          (/\ a # b
           /\ sessions[a] # None /\ sessions[b] # None
           /\ hist[a].user_id = hist[b].user_id) =>
          sessions[a].lesson_id # sessions[b].lesson_id
    /\ (resp # None /\ resp.endpoint = "lesson_next" /\ resp.lesson_id # <<>>) =>
          /\ attempts # <<>>
          /\ attempts[Len(attempts)].user_id = resp.user_id
          /\ attempts[Len(attempts)].lesson_id = resp.lesson_id

\* C7: when every request of a run was a /drill/next request answering the
\* same user and problem type and all have ended (with whatever status),
\* the stored posterior of that type holds one observation per request
\* (two requests: two more).
C7_NoLostUpdate ==
    (/\ proc # None /\ DOMAIN sessions = ApiSessionIds
     /\ \A p \in Requests : proc.req[p].pc = "idle") =>
        \A key \in DOMAIN proc.observed :
            proc.observed[key] = proc.started =>
            LET found == SelectUserState(user_state, key[1], key[2])
            IN  /\ found # {}
                /\ \A i \in found :
                      Observations(user_state[i].state_json) = proc.observed[key]

--------------------------------------------------------------------------
(***************************************************************************)
(* Bradley-Terry variant (luce_service.py).  BradleyTerryState keeps the   *)
(* same n x n matrix; update_state records pairwise wins in it.            *)
(***************************************************************************)
BradleyTerryMLService(prior) == [cls |-> "BradleyTerryMLService", prior |-> prior]

\* BradleyTerryMLService.get_initial_state / BradleyTerryState.initial
BradleyTerryState_initial(heap, n, prior) ==
    BradleyTerryState(heap, n, [i \in 1..n |-> [j \in 1..n |-> 0]], prior)

BradleyTerryMLService_get_initial_state(self, registry, heap, problem_type_id) ==
    LET looked == get_problem_type(registry, problem_type_id)
    IN  InitialState(looked, heap,
            IF looked.raised # "" THEN None
            ELSE BradleyTerryState_initial(heap, looked.config.n_classes, self.prior))

\* new_counts[winner - 1][loser - 1] += 1.0 for each loser in turn, on a
\* matrix of plain rows; <<>> stands for the IndexError of a bad index
RECURSIVE AddWins(_, _, _)
AddWins(rows, winner, losers) ==
    IF losers = <<>> \/ rows = <<>> THEN rows
    ELSE LET i == PyIndex(winner - 1, Len(rows))
             j == IF i = 0 THEN 0 ELSE PyIndex(Head(losers) - 1, Len(rows[i]))
         IN  IF i = 0 \/ j = 0 THEN <<>>
             ELSE AddWins([rows EXCEPT ![i][j] = @ + 1], winner, Tail(losers))

\* BradleyTerryState.copy_with_pairwise_wins
BradleyTerryState_copy_with_pairwise_wins(heap, self, winner, losers) ==
    LET a == HeapAlloc(heap, Matrix(heap, self.counts))
        rows == AddWins(Matrix(a.heap, a.refs), winner, losers)
    IN  IF rows = <<>> /\ losers # <<>> THEN Raised("IndexError", a.heap)
        ELSE LET h2 == [k \in 1..Len(a.heap) |->
                           IF k > Len(heap) THEN rows[k - Len(heap)] ELSE a.heap[k]]
                 c  == BradleyTerryState(h2, self.n_classes, rows, self.prior)
             IN  [raised |-> "", heap |-> c.heap, state |-> c.obj, updates |-> <<>>]

WinUpdate(selected_class, loser, old_value, new_value) ==
    [ tracker_id |-> "wins[" \o ToString(selected_class) \o "]["
                     \o ToString(loser) \o "]",
      old_value |-> old_value, new_value |-> new_value ]

\* BradleyTerryMLService.update_state
BradleyTerryMLService_update_state(self, heap, state, problem, answer) ==
    LET conv == IF state.cls = "BradleyTerryState" THEN [heap |-> heap, obj |-> state]
                ELSE BradleyTerryState(heap, state.n_classes,
                                       Matrix(heap, state.counts), self.prior)
        bt_state == conv.obj
        h == conv.heap
    IN  IF \/ problem.correct_sequence = <<>>
           \/ answer.selected_sequence = <<>>
           \/ \E k \in 1..Len(problem.alternatives) : problem.alternatives[k] = <<>>
        THEN Raised("IndexError", h)
        ELSE LET correct_class  == problem.correct_sequence[1]
                 selected_class == answer.selected_sequence[1]
                 all_classes == <<correct_class>> \o FirstClasses(problem.alternatives)
                 losers == SelectSeq(all_classes, LAMBDA c : c # selected_class)
                 i == PyIndex(selected_class - 1, Len(bt_state.counts))
                 row == IF i = 0 THEN <<>> ELSE h[bt_state.counts[i]]
             IN  IF losers # <<>> /\
                    (i = 0 \/ \E k \in 1..Len(losers) :
                                  PyIndex(losers[k] - 1, Len(row)) = 0)
                 THEN Raised("IndexError", h)
                 ELSE LET r == BradleyTerryState_copy_with_pairwise_wins(
                                   h, bt_state, selected_class, losers)
                      IN  [r EXCEPT !.updates =
                              [k \in 1..Len(losers) |->
                                  LET old_value ==
                                          row[PyIndex(losers[k] - 1, Len(row))]
                                  IN  WinUpdate(selected_class, losers[k],
                                                old_value, old_value + 1)]]


(***************************************************************************)
(* update_state called with presented problems: the alternatives of a      *)
(* problem either exclude the correct sequence (types.py) or include it    *)
(* (the samplers of DrillService), and the answer is any sequence a client *)
(* can send.                                                               *)
(***************************************************************************)
\* calls per run
MaxChoiceCalls == 2

ChoiceProblems ==
    { Problem(tone_1, 0, <<1>>, << <<2>>, <<3>>, <<4>> >>),
      Problem(tone_1, 0, <<2>>, << <<1>>, <<2>> >>),
      Problem(tone_2, 0, <<2, 1>>, << <<2, 1>>, <<3, 1>> >>) }

ChoiceAnswers == { <<1>>, <<2>>, <<5>>, <<2, 1>>, <<3, 1>>, <<7>>, <<>> }

\* the sequences shown to the user
PresentedChoices(problem) ==
    {problem.correct_sequence} \cup Range(problem.alternatives)

choice_get_initial_state(ml, registry, heap, problem_type_id) ==
    IF ml.cls = "BradleyTerryMLService"
    THEN BradleyTerryMLService_get_initial_state(ml, registry, heap, problem_type_id)
    ELSE ml_get_initial_state(ml, registry, heap, problem_type_id)

choice_update_state(ml, heap, state, problem, answer) ==
    IF ml.cls = "BradleyTerryMLService"
    THEN BradleyTerryMLService_update_state(ml, heap, state, problem, answer)
    ELSE ml_update_state(ml, heap, state, problem, answer)

InitChoice ==
    /\ sessions = [sid \in SessionIds |-> None]
    /\ attempts = <<>>
    /\ catalog = CatalogFull
    /\ hist = [sid \in SessionIds |-> NoHist]
    /\ resp = None
    /\ user_state = <<>>
    /\ proc = None
    /\ \E ml \in {BradleyTerryMLService(1), LuceMLService(1)} :
          pure = [ ml |-> ml,
                   states |-> [k \in {tone_1, tone_2} |->
                                  LET r == choice_get_initial_state(ml, PROBLEM_TYPES, <<>>, k)
                                  IN  StateValue(r.heap, r.obj)],
                   calls |-> 0,
                   last |-> None ]

\* ml.update_state(states[problem_type_id], problem, answer)
UpdateChoice(problem, selected_sequence) ==
    /\ pure.calls < MaxChoiceCalls
    /\ LET T == problem.problem_type_id
           o == Objects(pure.states)
           answer == Answer(selected_sequence, 0)
           r == choice_update_state(pure.ml, o.heap, o.objs[T], problem, answer)
       IN  pure' = [pure EXCEPT
              !.calls = @ + 1,
              !.states = IF r.raised # "" THEN @
                         ELSE [@ EXCEPT ![T] = StateValue(r.heap, r.state)],
              !.last = [ op |-> "update_choice", problem |-> problem,
                         answer |-> answer, raised |-> r.raised,
                         before |-> pure.states,
                         after |-> IF r.raised # "" THEN pure.states
                                   ELSE [pure.states EXCEPT
                                            ![T] = StateValue(r.heap, r.state)],
                         updates |-> r.updates ]]
    /\ UNCHANGED <<sessions, attempts, catalog, hist, resp, user_state, proc>>

NextChoice ==
    \E problem \in ChoiceProblems, s \in ChoiceAnswers : UpdateChoice(problem, s)

SpecChoice == InitChoice /\ [][NextChoice]_vars

\* C11: BradleyTerryMLService.update_state, for a problem and an answer
\* that is one of its presented choices, returns exactly one update with
\* tracker id counts[correct][selected] and a state that is the input with
\* cell [correct][selected] one higher and every other cell unchanged.
C11_BtRecordsConfusion ==
    (/\ pure # None /\ pure.last # None /\ pure.last.op = "update_choice"
     /\ pure.ml.cls = "BradleyTerryMLService"
     /\ pure.last.answer.selected_sequence \in PresentedChoices(pure.last.problem)) =>
    LET l == pure.last
        T == l.problem.problem_type_id
        c == l.problem.correct_sequence[1]
        sel == l.answer.selected_sequence[1]
    IN  /\ l.raised = ""
        /\ Len(l.updates) = 1
        /\ l.updates[1].tracker_id =
              "counts[" \o ToString(c) \o "][" \o ToString(sel) \o "]"
        /\ l.after[T].counts = [l.before[T].counts EXCEPT ![c][sel] = @ + 1]

\* C18: update_state (Luce) given an answer whose selected sequence is not
\* one of the presented choices, or whose length differs from the correct
\* sequence, is rejected (the call reports an error, InvalidAnswer or any
\* other) and leaves the posterior as it was.
C18_InvalidAnswerRejected ==
    (/\ pure # None /\ pure.last # None /\ pure.last.op = "update_choice"
     /\ pure.ml.cls = "LuceMLService"
     /\ \/ pure.last.answer.selected_sequence \notin PresentedChoices(pure.last.problem)
        \/ Len(pure.last.answer.selected_sequence) #
              Len(pure.last.problem.correct_sequence)) =>
        /\ pure.last.raised # ""
        /\ pure.last.after = pure.last.before

--------------------------------------------------------------------------
(***************************************************************************)
(* Replay (scripts/replay_state.py): the logged attempts fed in order      *)
(* through update_state, each problem type starting from its initial state.*)
(***************************************************************************)
\* one turn of the loop from the point where states[problem_type_id] is
\* set: Answer(elapsed_ms=None) fails pydantic's validation of the int
\* field; then ml.update_state and the assignment of the new state
RECURSIVE ReplayLoop(_, _, _, _)
ReplayUpdate(ml, registry, attempt, log, problem_type_id, cur) ==
    IF attempt.response_time_ms = <<>>
    THEN [raised |-> "ValidationError", states |-> cur, registry |-> registry]
    ELSE LET o == Objects(cur)
             r == ml_update_state(ml, o.heap, o.objs[problem_type_id],
                      Problem(problem_type_id, 0, attempt.correct_sequence, <<>>),
                      Answer(attempt.selected_sequence, attempt.response_time_ms[1]))
         IN  IF r.raised # ""
             THEN [raised |-> r.raised, states |-> cur, registry |-> registry]
             ELSE ReplayLoop(ml, registry, log,
                      [cur EXCEPT ![problem_type_id] = StateValue(r.heap, r.state)])

\* the loop of replay_attempts: a type met for the first time starts from
\* ml.get_initial_state(problem_type_id), which registers a type the
\* registry does not hold
ReplayLoop(ml, registry, log, states) ==
    IF log = <<>> THEN [raised |-> "", states |-> states, registry |-> registry]
    ELSE LET attempt == Head(log)
             problem_type_id ==
                 make_problem_type_id("tone", Len(attempt.correct_sequence))
         IN  IF problem_type_id \in DOMAIN states
             THEN ReplayUpdate(ml, registry, attempt, Tail(log), problem_type_id, states)
             ELSE LET init == ml_get_initial_state(ml, registry, <<>>, problem_type_id)
                  IN  IF init.raised # ""
                      THEN [raised |-> init.raised, states |-> states,
                            registry |-> init.registry]
                      ELSE ReplayUpdate(ml, init.registry, attempt, Tail(log),
                               problem_type_id,
                               DictSet(states, problem_type_id,
                                       StateValue(init.heap, init.obj)))

\* replay_attempts: ml = get_ml_service() comes first.  The script runs in
\* a process of its own, whose registry is PROBLEM_TYPES at import.
replay_attempts(log) ==
    IF get_ml_service.raised # ""
    THEN [raised |-> get_ml_service.raised, states |-> EmptyDict,
          registry |-> PROBLEM_TYPES]
    ELSE ReplayLoop(get_ml_service.service, PROBLEM_TYPES, log, EmptyDict)

\* the attempts logged for a user, in created_at order
AttemptsOf(user_id) == SelectSeq(attempts, LAMBDA a : a.user_id = user_id)

\* C12: when the requests of a run were handled one after the other and all
\* have ended, replaying a user's logged attempts from the initial state
\* ends without an error and yields, for every tone problem type, the
\* counts stored for that user and type (the initial counts when nothing is
\* stored and nothing was logged).
C12_ReplayReproducesStored ==
    (/\ proc # None /\ DOMAIN sessions = ApiSessionIds
     /\ ~proc.overlap
     /\ proc.started > 0
     /\ \A p \in Requests : proc.req[p].pc = "idle") =>
        \A u \in UserIds :
            LET rp == replay_attempts(AttemptsOf(u))
            IN  /\ rp.raised = ""
                /\ \A i \in 1..Len(get_problem_types_for_drill(proc.registry, "tone")) :
                      LET T == get_problem_types_for_drill(proc.registry, "tone")[i]
                                   .problem_type_id
                          replayed == IF T \in DOMAIN rp.states THEN rp.states[T]
                                      ELSE InitialValue(get_ml_service.service, T)
                          loaded == load_state(user_state, EmptyDict, proc.registry, u, T)
                      IN  /\ loaded.raised = ""
                          /\ loaded.state.counts = replayed.counts

--------------------------------------------------------------------------
(***************************************************************************)
(* The difficulty tier                                                     *)
(***************************************************************************)
(***************************************************************************)
(* The predictions applied to single-syllable posteriors: every class      *)
(* answered correctly d times, and one confusion cell holding e answers.   *)
(***************************************************************************)
\* largest number of correct answers per class, and of confusions in a cell
MaxDiag == 27
MaxOff == 2

TierCells == { <<1, 2>>, <<2, 1>>, <<3, 5>> }

TierState(d, cell, e) ==
    [ cls |-> "LuceState", n_classes |-> N_TONES,
      counts |-> [i \in 1..N_TONES |-> [j \in 1..N_TONES |->
                     IF i = j THEN d ELSE IF <<i, j>> = cell THEN e ELSE 0]],
      prior |-> 1 ]

\* problems as get_all_pair_stats builds them (alternatives without the
\* correct sequence) and as the samplers and the tier check build them
\* (alternatives with it)
TierProblems ==
    { PairProblem(tone_1, 1, 2),
      Problem(tone_1, 0, <<1>>, << <<1>>, <<2>> >>),
      Problem(tone_1, 0, <<2>>, << <<1>>, <<3>>, <<4>> >>),
      FourChoiceProblem(tone_1, 3, <<1, 2, 3, 5>>) }

InitTier ==
    /\ sessions = [sid \in SessionIds |-> None]
    /\ attempts = <<>>
    /\ catalog = CatalogFull
    /\ hist = [sid \in SessionIds |-> NoHist]
    /\ resp = None
    /\ user_state = <<>>
    /\ proc = None
    /\ \E d \in 0..MaxDiag, cell \in TierCells, e \in 0..MaxOff :
          pure = [ ml |-> LuceMLService(1), state |-> TierState(d, cell, e),
                   last |-> None ]

\* ml.get_success_distribution(problem, state)
SuccessDistribution(problem) ==
    /\ pure.last = None
    /\ pure' = [pure EXCEPT !.last =
          [ op |-> "success", problem |-> problem,
            beta |-> LuceMLService_get_success_distribution(
                         pure.ml, problem, pure.state) ]]
    /\ UNCHANGED <<sessions, attempts, catalog, hist, resp, user_state, proc>>

\* service._get_difficulty_level(state)
DifficultyLevel ==
    /\ pure.last = None
    /\ pure' = [pure EXCEPT !.last =
          [ op |-> "tier",
            level |-> _get_difficulty_level(pure.ml, PROBLEM_TYPES, pure.state).level,
            pair_stats |-> ml_get_all_pair_stats(
                               pure.ml, PROBLEM_TYPES, tone_1, pure.state).stats ]]
    /\ UNCHANGED <<sessions, attempts, catalog, hist, resp, user_state, proc>>

NextTier ==
    \/ \E problem \in TierProblems : SuccessDistribution(problem)
    \/ DifficultyLevel

SpecTier == InitTier /\ [][NextTier]_vars

\* the Luce choice rule, P(correct | A) = theta[i*, i*] / sum over the
\* classes k of the presented set A of theta[i*, k], theta = counts + prior
RECURSIVE StrengthSum(_, _, _)
StrengthSum(row, A, prior) ==
    IF A = {} THEN 0
    ELSE LET k == CHOOSE x \in A : TRUE
         IN  row[k] + prior + StrengthSum(row, A \ {k}, prior)

LuceChoiceRule(state, correct_class, A) ==
    << state.counts[correct_class][correct_class] + state.prior,
       StrengthSum(state.counts[correct_class], A, state.prior) >>

\* C14: for a single-syllable problem with correct class i* and presented
\* classes A, the success probability get_success_distribution returns is
\* (C[i*][i*] + prior) / sum over k in A, each class once, of
\* (C[i*][k] + prior), whether or not the alternatives list holds the
\* correct sequence.
C14_LuceSuccessProbability ==
    (pure # None /\ "state" \in DOMAIN pure /\ pure.last # None
     /\ pure.last.op = "success") =>
    LET problem == pure.last.problem
        A == {problem.correct_sequence[1]}
                 \cup Range(FirstClasses(problem.alternatives))
        expected == LuceChoiceRule(pure.state, problem.correct_sequence[1], A)
        p == pure.last.beta.p_correct
    IN  /\ pure.last.beta.raised = ""
        /\ p[1] * expected[2] = expected[1] * p[2]

\* C13: the tier is "2-choice" whenever some pair's all_pair_stats mean is
\* below 0.80; it is "4-choice-multi" whenever every pair mean and every
\* four-class set's predicted four-choice success (for each class of the
\* set as the correct one) is at least 0.90; it is "mixed" when all pair
\* means are at least 0.80 and some set's predicted success is below 0.90.
C13_TierFromPosterior ==
    (pure # None /\ "state" \in DOMAIN pure /\ pure.last # None
     /\ pure.last.op = "tier") =>
    LET stats == pure.last.pair_stats
        belowPair == \E pr \in DOMAIN stats : FracLess(stats[pr], <<4, 5>>)
        allPairsHigh == \A pr \in DOMAIN stats : ~FracLess(stats[pr], <<9, 10>>)
        fourLow == \E s \in _get_all_four_choice_sets : \E k \in 1..4 :
                       FracLess(LuceChoiceRule(pure.state, s[k], Range(s)), <<9, 10>>)
    IN  /\ belowPair => pure.last.level = "2-choice"
        /\ (allPairsHigh /\ ~fourLow) => pure.last.level = "4-choice-multi"
        /\ (~belowPair /\ fourLow) => pure.last.level = "mixed"

--------------------------------------------------------------------------
(***************************************************************************)
(* DrillService: sampling the next problem (services/drill.py).  A call    *)
(* reads its random outcomes from a draw record:                           *)
(*   preview  random.random() < PREVIEW_PROBABILITY                        *)
(*   half     random.random() < 0.5 of the preview / mixed branch          *)
(*   w        the index _weighted_sample returns (every weight is          *)
(*            positive, so every index is a possible outcome)              *)
(*   d        the draws of the chosen sampler, as in DrawAt                *)
(***************************************************************************)
\* draws per tape a sampling call may be at
NDraws == 4

\* word indexes: the full one, none, a single two-syllable key, two
\* single-syllable keys, and a blank word (tone sequence []) ahead of a word
SamplerCatalogs ==
    { CatalogFull,
      <<>>,
      << [key |-> <<1, 2>>, words |-> <<21>>] >>,
      << [key |-> <<3>>, words |-> <<13>>], [key |-> <<5>>, words |-> <<15, 25>>] >>,
      << [key |-> <<>>, words |-> <<40>>], [key |-> <<1>>, words |-> <<11>>] >> }

\* posterior maps: none stored, a fresh learner, and one past the pair
\* mastery threshold
SamplerStates ==
    { EmptyDict,
      DictSet(EmptyDict, tone_1, TierState(0, <<1, 2>>, 0)),
      DictSet(EmptyDict, tone_1, TierState(8, <<1, 2>>, 0)) }

\* the previous problem and answer of a call: the first drill, or an answer
SamplerAnswered ==
    { <<None, None>>,
      <<Problem(tone_1, 11, <<1>>, << <<1>>, <<2>> >>), Answer(<<2>>, 0)>> }

\* get_today_string() during the run, and the day before
Today == "2026-10-31"
Yesterday == "2026-10-30"

\* progress.confusion_state as stored for the legacy drill: a matrix with d
\* on the diagonal and e confusions of tone 1 with tone 2
ToneDrillStoredState(d, e) ==
    [counts |-> [i \in 1..N_TONES |-> [j \in 1..N_TONES |->
                    IF i = j THEN d ELSE IF <<i, j>> = <<1, 2>> THEN e ELSE 0]]]

\* progress.vowel_confusion_state as stored by the vowel drill: a matrix
\* with d on the diagonal and e confusions of vowel 1 with vowel 2
VowelDrillStoredState(d, e) ==
    [ counts |-> [i \in 1..NUM_VOWELS |-> [j \in 1..NUM_VOWELS |->
                     IF i = j THEN d ELSE IF <<i, j>> = <<1, 2>> THEN e ELSE 0]],
      counts_by_context |-> EmptyDict ]

\* a row of user_progress last written on the given day
ToneDrillStoredRow(confusion_state, day, vowel_confusion_state) ==
    [ confusion_state |-> confusion_state, last_review_date |-> day,
      reviews_today |-> 3, correct_today |-> 2,
      total_reviews |-> 5, total_correct |-> 4,
      vowel_confusion_state |-> vowel_confusion_state ]

\* the user's row of user_progress: none, or a row last written today or
\* the day before, its confusion_state and its vowel_confusion_state NULL
\* or a matrix
ToneDrillStored ==
    { None,
      ToneDrillStoredRow(None, Yesterday, None),
      ToneDrillStoredRow(ToneDrillStoredState(20, 0), Today, None),
      ToneDrillStoredRow(ToneDrillStoredState(20, 20), Today,
                         VowelDrillStoredState(20, 0)),
      ToneDrillStoredRow(ToneDrillStoredState(60, 0), Yesterday,
                         VowelDrillStoredState(60, 20)) }

\* the rows on which requests overlap
OverlapStored ==
    { None,
      ToneDrillStoredRow(None, Yesterday, None),
      ToneDrillStoredRow(ToneDrillStoredState(20, 20), Today,
                         VowelDrillStoredState(20, 0)) }

\* user_tone_cards next to a row of user_progress
ToneDrillCards(stored) ==
    IF stored = None THEN <<>>
    ELSE << [ sequence_key |-> Chars("1"), card_data |-> EmptyDict,
              correct |-> 4, total |-> 5 ] >>

\* user_vowel_cards next to a row of user_progress
VowelDrillCards(stored) ==
    IF stored = None THEN <<>>
    ELSE << [ sequence_key |-> Chars("1"), card_data |-> EmptyDict,
              correct |-> 2, total |-> 3 ] >>

\* user_word_cards next to a row of user_progress
WordCards(stored) ==
    IF stored = None THEN <<>>
    ELSE << [word_id |-> 11, card_data |-> EmptyDict] >>

\* requests of the legacy handlers in a run, each a coroutine of its own
MaxInFlight == 2

LegacySlots == 1..MaxInFlight

InitSampler ==
    /\ sessions = [sid \in SessionIds |-> None]
    /\ attempts = <<>>
    /\ catalog \in SamplerCatalogs
    /\ hist = [sid \in SessionIds |-> NoHist]
    /\ resp = None
    /\ user_state = <<>>
    /\ proc = None
    \* the posteriors of the drill service and the row of the legacy drill
    \* are independent: one of them varies at a time
    /\ \E states \in SamplerStates, stored \in ToneDrillStored, cards \in ToneDrillStored :
          /\ states = EmptyDict \/ stored = None
          /\ cards \in {None, stored}
          /\ pure = [ ml |-> LuceMLService(1), states |-> states,
                      progress |-> stored, tone_cards |-> ToneDrillCards(cards),
                      vowel_cards |-> VowelDrillCards(cards),
                      word_cards |-> WordCards(cards),
                      reqs |-> [s \in LegacySlots |-> None], started |-> 0,
                      \* the word index and the tables are independent:
                      \* requests overlap on the full index, on no row and
                      \* on a row with its cards
                      admitted |-> IF /\ catalog = CatalogFull /\ states = EmptyDict
                                      /\ cards = stored /\ stored \in OverlapStored
                                   THEN MaxInFlight ELSE 1,
                      last |-> None ]

\* what a call leaves: the dict by value, and the error or the sampled
\* problem
DrillCalled(r) ==
    [ states |-> [k \in DOMAIN r.states |-> StateValue(r.heap, r.states[k])],
      last |-> [ op |-> "next", service |-> "drill", raised |-> r.raised,
                 difficulty |-> r.difficulty, problem |-> r.next_problem ] ]

DrillCallOn(ml, cat, o, problem, answer, draw) ==
    DrillCalled(process_answer_and_get_next(ml, PROBLEM_TYPES, o.heap, problem, answer,
                                            o.objs, cat, draw))

\* the one call of a run
AfterCall(p, call) ==
    [p EXCEPT !.states = call.states, !.last = call.last, !.started = p.admitted]

\* service.process_answer_and_get_next(problem, answer, states): the update,
\* then the next problem sampled from the updated posterior
NextDrill(problem, answer, draw) ==
    /\ pure.last = None
    /\ pure.started = 0
    /\ pure' = AfterCall(pure, DrillCallOn(pure.ml, catalog, Objects(pure.states),
                                           problem, answer, draw))
    /\ UNCHANGED <<sessions, attempts, catalog, hist, resp, user_state, proc>>

\* indexes _weighted_sample returns: the first, the last and one between
WeightedPicks == {1, (Len(PairList) + 1) \div 2, Len(PairList)}

SamplerDraws ==
    { SampleDraw(pv, h, w, DrawAt(k, n)) :
        pv \in BOOLEAN, h \in BOOLEAN, w \in WeightedPicks,
        k \in 1..NTapes, n \in 0..(NDraws - 1) }

\* the random outcomes of a call of the legacy sampler: the preview, the
\* pair or set sampled, the second pair and coin of _sample_2_syllable, and
\* the draws of the first tape
ToneDrillDraws ==
    { [preview |-> pv, w |-> w, w2 |-> c[1], coin2 |-> c[2], d |-> DrawAt(1, n)] :
        pv \in BOOLEAN, w \in WeightedPicks, c \in {<<2, TRUE>>, <<9, FALSE>>},
        n \in 0..(NDraws - 1) }


--------------------------------------------------------------------------
(***************************************************************************)
(* The legacy tone drill (services/tone_drill.py, routers/tone_drill.py).  *)
(* Tones are written 1-indexed throughout; the service's 0-indexed pairs   *)
(* and sets are the same lists shifted by one.  Probabilities are exact    *)
(* fractions <<numerator, denominator>>.                                   *)
(***************************************************************************)
PSEUDOCOUNT == 5
MIN_TOTAL_2CHOICE_ATTEMPTS == 100
ToneDrill_PAIR_MASTERY_THRESHOLD == <<4, 5>>
ToneDrill_FOUR_CHOICE_MASTERY_THRESHOLD == <<4, 5>>

RECURSIVE Gcd(_, _)
Gcd(a, b) == IF b = 0 THEN a ELSE Gcd(b, a % b)

FracNorm(p) == LET g == Gcd(p[1], p[2]) IN IF g = 0 THEN p ELSE <<p[1] \div g, p[2] \div g>>
FracAdd(p, q) ==
    LET g == Gcd(p[2], q[2])
    IN  FracNorm(<<p[1] * (q[2] \div g) + q[1] * (p[2] \div g), (p[2] \div g) * q[2]>>)
FracMul(p, q) == FracNorm(<<p[1] * q[1], p[2] * q[2]>>)
FracOneMinus(p) == <<p[2] - p[1], p[2]>>

RECURSIVE FracSum(_)
FracSum(s) == IF s = <<>> THEN <<0, 1>> ELSE FracAdd(Head(s), FracSum(Tail(s)))

\* counts[i][j] if i < len(counts) and j < len(counts[i]) else 0
CountAt(counts, i, j) ==
    IF i <= Len(counts) /\ j <= Len(counts[i]) THEN counts[i][j] ELSE 0

\* ToneDrillService.get_total_attempts
ToneDrillService_get_total_attempts(confusion_state) ==
    IF confusion_state = None THEN 0
    ELSE SeqSum([i \in 1..Len(confusion_state.counts) |->
                    SeqSum(confusion_state.counts[i])])

\* confusion_state.counts if confusion_state else [[0] * 6 for _ in range(6)]
ToneDrill_counts(confusion_state) ==
    IF confusion_state = None
    THEN [i \in 1..N_TONES |-> [j \in 1..N_TONES |-> 0]]
    ELSE confusion_state.counts

\* the quotients error_given_a and error_given_b of
\* get_pair_error_probability, numerator and denominator
PairErrors(counts, a, b) ==
    << << CountAt(counts, a, b) + PSEUDOCOUNT,
          CountAt(counts, a, a) + CountAt(counts, a, b) + 2 * PSEUDOCOUNT >>,
       << CountAt(counts, b, a) + PSEUDOCOUNT,
          CountAt(counts, b, b) + CountAt(counts, b, a) + 2 * PSEUDOCOUNT >> >>

\* 0.5 * error_given_a + 0.5 * error_given_b
PairErrorProbability(errors) ==
    FracAdd(FracMul(<<1, 2>>, errors[1]), FracMul(<<1, 2>>, errors[2]))

\* get_pair_correct_probability in doubles: 1 - (0.5 * e_a + 0.5 * e_b)
PairCorrectDouble(errors) ==
    DoubleSub(DoubleOne,
              DoubleAdd(DoubleMul(DoubleHalf, DoubleFrac(errors[1])),
                        DoubleMul(DoubleHalf, DoubleFrac(errors[2]))))

\* A comparison of two probabilities of the legacy services is the
\* comparison of two doubles.  Where the values, taken to six decimal
\* places, are further apart than rounding can bridge, the places decide;
\* otherwise, or when a count is too large for that, the doubles do.
FixedOne == 10 ^ 6
FixedFits(p) == p[1] >= 0 /\ p[1] < 2000 /\ p[2] > 0
\* p to six places, rounded down, for FixedFits(p)
Fixed(p) == (p[1] * FixedOne) \div p[2]

\* get_pair_correct_probability(...) < threshold, that is
\* error_given_a + error_given_b > 2 * (1 - threshold)
PairCorrectBelow(errors, threshold) == Float("PairCorrectBelow", <<errors, threshold>>)
PairCorrectBelowBody(errors, threshold) ==
    IF FixedFits(errors[1]) /\ FixedFits(errors[2])
       /\ Fixed(errors[1]) + Fixed(errors[2]) > 2 * Fixed(FracOneMinus(threshold)) + 4
    THEN TRUE
    ELSE IF FixedFits(errors[1]) /\ FixedFits(errors[2])
            /\ Fixed(errors[1]) + Fixed(errors[2]) + 4 < 2 * Fixed(FracOneMinus(threshold))
    THEN FALSE
    ELSE DoubleLess(PairCorrectDouble(errors), DoubleFrac(threshold))

\* ToneDrillService.get_pair_error_probability
ToneDrillService_get_pair_error_probability(confusion_state, a, b) ==
    PairErrorProbability(PairErrors(ToneDrill_counts(confusion_state), a, b))

\* the quotients correct_prob of get_four_choice_error_probability, one
\* for each tone of alternatives
FourChoiceCorrectProbs(counts, alternatives) ==
    [ k \in 1..4 |->
        << CountAt(counts, alternatives[k], alternatives[k]) + PSEUDOCOUNT,
           SeqSum([l \in 1..4 |-> CountAt(counts, alternatives[k], alternatives[l])])
               + 4 * PSEUDOCOUNT >> ]

\* total_error / 4, total_error += (1 - correct_prob) for each tone
FourChoiceErrorProbability(probs) ==
    FracMul(<<1, 4>>, FracSum([k \in 1..4 |-> FracOneMinus(probs[k])]))

\* the same in doubles, total_error starting at 0.0
RECURSIVE TotalErrorDouble(_, _, _)
TotalErrorDouble(probs, k, total_error) ==
    IF k > Len(probs) THEN total_error
    ELSE TotalErrorDouble(probs, k + 1,
             DoubleAdd(total_error, DoubleSub(DoubleOne, DoubleFrac(probs[k]))))
FourChoiceCorrectDouble(probs) ==
    DoubleSub(DoubleOne,
              DoubleDiv(TotalErrorDouble(probs, 1, DoubleZero), DoubleOf(4)))

\* the sum of 1 - correct_prob over the tones, to six places, rounded down
FourChoiceFits(probs) == \A k \in 1..4 : FixedFits(FracOneMinus(probs[k]))
FourChoiceFixed(probs) == SeqSum([k \in 1..4 |-> Fixed(FracOneMinus(probs[k]))])

\* get_four_choice_correct_probability(...) < threshold for four
\* alternatives, that is total_error > 4 * (1 - threshold)
FourChoiceCorrectBelow(probs, threshold) == Float("FourChoiceCorrectBelow", <<probs, threshold>>)
FourChoiceCorrectBelowBody(probs, threshold) ==
    IF FourChoiceFits(probs)
       /\ FourChoiceFixed(probs) > 4 * Fixed(FracOneMinus(threshold)) + 8
    THEN TRUE
    ELSE IF FourChoiceFits(probs)
            /\ FourChoiceFixed(probs) + 8 < 4 * Fixed(FracOneMinus(threshold))
    THEN FALSE
    ELSE DoubleLess(FourChoiceCorrectDouble(probs), DoubleFrac(threshold))

\* ToneDrillService.get_four_choice_error_probability
ToneDrillService_get_four_choice_error_probability(confusion_state, alternatives) ==
    IF Len(alternatives) # 4 THEN <<3, 4>>
    ELSE FourChoiceErrorProbability(
             FourChoiceCorrectProbs(ToneDrill_counts(confusion_state), alternatives))

\* a mastery check without the minimum-attempts gate
ToneDrillService_are_all_pairs_mastered_ungated(confusion_state) ==
    /\ confusion_state # None
    /\ \A k \in 1..Len(PairList) :
          ~PairCorrectBelow(PairErrors(ToneDrill_counts(confusion_state),
                                       PairList[k][1], PairList[k][2]),
                            ToneDrill_PAIR_MASTERY_THRESHOLD)

\* ToneDrillService.are_all_pairs_mastered
ToneDrillService_are_all_pairs_mastered(confusion_state) ==
    /\ confusion_state # None
    /\ ToneDrillService_get_total_attempts(confusion_state) >= MIN_TOTAL_2CHOICE_ATTEMPTS
    /\ \A k \in 1..Len(PairList) :
          ~PairCorrectBelow(PairErrors(ToneDrill_counts(confusion_state),
                                       PairList[k][1], PairList[k][2]),
                            ToneDrill_PAIR_MASTERY_THRESHOLD)

\* ToneDrillService.are_all_four_choice_sets_mastered
ToneDrillService_are_all_four_choice_sets_mastered(confusion_state) ==
    /\ confusion_state # None
    /\ \A k \in 1..Len(FourSetList) :
          ~FourChoiceCorrectBelow(
               FourChoiceCorrectProbs(ToneDrill_counts(confusion_state), FourSetList[k]),
               ToneDrill_FOUR_CHOICE_MASTERY_THRESHOLD)

\* ToneDrillService.get_difficulty_level
ToneDrillService_get_difficulty_level(confusion_state) ==
    IF ~ToneDrillService_are_all_pairs_mastered(confusion_state) THEN "2-choice"
    ELSE IF ~ToneDrillService_are_all_four_choice_sets_mastered(confusion_state)
    THEN "4-choice"
    ELSE "multi-syllable"

\* the dict a legacy sampler returns; the word stands for its id
DrillData(word, sequence_key, correct_sequence, alternatives) ==
    [ word |-> word, sequence_key |-> sequence_key,
      correct_sequence |-> correct_sequence, alternatives |-> alternatives ]

\* a sampler's dict whose correct_sequence is parsed from the key
DrillDataParsed(word, sequence_key, alternatives) ==
    LET parsed == ParseKey(sequence_key)
    IN  IF parsed.raised # "" THEN [raised |-> parsed.raised]
        ELSE DrillData(word, sequence_key, parsed.value, alternatives)

\* ToneDrillService.get_any_mono_syllabic_word
ToneDrillService_get_any_mono_syllabic_word(cat, d) ==
    LET shuffled_tones == PyShuffle([t \in 1..N_TONES |-> t], d.remaining)
        has(i) == WordsFor(cat, <<shuffled_tones[i]>>) # <<>>
    IN  IF ~\E i \in 1..N_TONES : has(i) THEN None
        ELSE LET tone == shuffled_tones[CHOOSE i \in 1..N_TONES :
                             has(i) /\ \A l \in 1..(i - 1) : ~has(l)]
                 other_tone == IF tone < 6 THEN tone + 1 ELSE tone - 1
             IN  [ word |-> PyChoice(WordsFor(cat, <<tone>>), d.word),
                   key |-> <<tone>>, alts |-> <<tone, other_tone>> ]

\* ToneDrillService.get_any_word
ToneDrillService_get_any_word(cat, d) ==
    IF \E i \in DOMAIN cat : cat[i].words # <<>>
    THEN LET i == CHOOSE j \in DOMAIN cat :
                      cat[j].words # <<>> /\ \A l \in 1..(j - 1) : cat[l].words = <<>>
         IN  [word |-> PyChoice(cat[i].words, d.word), key |-> cat[i].key]
    ELSE None

\* ToneDrillService._generate_distractors: the correct sequence, the
\* distinct sequences up to 100 attempts find, the fill, and
\* random.shuffle(distractors)
ToneDrillService__generate_distractors(correct_sequence, d) ==
    PyShuffle(FillDistractors(TryDistractors(<<correct_sequence>>, correct_sequence,
                                             d.attempts, 100, N_TONES),
                              correct_sequence),
              d.shuffle)

\* ToneDrillService._sample_2_choice
ToneDrillService__sample_2_choice(cat, draw) ==
    LET d == draw.d
        selected_pair == PairList[draw.w]
        first == IF d.coin THEN selected_pair[1] ELSE selected_pair[2]
        other == IF d.coin THEN selected_pair[2] ELSE selected_pair[1]
        selected_tone == IF WordsFor(cat, <<first>>) # <<>> THEN first ELSE other
        words == WordsFor(cat, <<selected_tone>>)
    IN  IF words = <<>>
        THEN LET fallback == ToneDrillService_get_any_mono_syllabic_word(cat, d)
             IN  IF fallback = None THEN None
                 ELSE DrillDataParsed(fallback.word, fallback.key,
                          [i \in 1..2 |-> <<fallback.alts[i]>>])
        ELSE DrillData(PyChoice(words, d.word), <<selected_tone>>, <<selected_tone>>,
                       << <<selected_pair[1]>>, <<selected_pair[2]>> >>)

\* ToneDrillService._sample_4_choice from "for idx in shuffled_indices" on
ToneDrillService__sample_4_choice_of(cat, d, selected_set, shuffled_indices) ==
    LET has(i) == WordsFor(cat, <<selected_set[shuffled_indices[i]]>>) # <<>>
        alternatives == [i \in 1..4 |-> <<selected_set[i]>>]
    IN  IF ~\E i \in 1..4 : has(i)
        THEN LET fallback == ToneDrillService_get_any_mono_syllabic_word(cat, d)
             IN  IF fallback = None THEN None
                 ELSE DrillDataParsed(fallback.word, fallback.key, alternatives)
        ELSE LET selected_tone ==
                     selected_set[shuffled_indices[CHOOSE i \in 1..4 :
                         has(i) /\ \A l \in 1..(i - 1) : ~has(l)]]
             IN  DrillData(PyChoice(WordsFor(cat, <<selected_tone>>), d.word),
                           <<selected_tone>>, <<selected_tone>>, alternatives)

\* selected_set = self.sample_four_choice_set(confusion_state);
\* shuffled_indices = list(range(4)); random.shuffle(shuffled_indices)
ToneDrillService__sample_4_choice(cat, draw) ==
    ToneDrillService__sample_4_choice_of(cat, draw.d, FourSetList[draw.w],
                                         PyShuffle(<<1, 2, 3, 4>>, draw.d.shuffle))

\* what _get_confusion_factor reads for each tone of the sequence: the
\* row's correct count and sum where the row has answers, <<>> where it
\* adds 1.0
ConfusionTerms(sequence, confusion_state) ==
    [ i \in 1..Len(sequence) |->
        IF /\ confusion_state # None
           /\ sequence[i] >= 1 /\ sequence[i] <= Len(confusion_state.counts)
           /\ SeqSum(confusion_state.counts[sequence[i]]) > 0
        THEN << confusion_state.counts[sequence[i]][sequence[i]],
                SeqSum(confusion_state.counts[sequence[i]]) >>
        ELSE <<>> ]

\* ToneDrillService._get_confusion_factor: total_confusion from 0.0 on,
\* adding 1 + (1 - correct_prob) or 1.0 for each tone, over
\* len(tone_numbers)
RECURSIVE TotalConfusionDouble(_, _, _)
TotalConfusionDouble(terms, i, total_confusion) ==
    IF i > Len(terms) THEN total_confusion
    ELSE TotalConfusionDouble(terms, i + 1,
             DoubleAdd(total_confusion,
                       IF terms[i] = <<>> THEN DoubleOne
                       ELSE DoubleAdd(DoubleOne,
                                      DoubleSub(DoubleOne, DoubleFrac(terms[i])))))
ConfusionFactorDouble(terms) ==
    IF terms = <<>> THEN DoubleOne
    ELSE DoubleDiv(TotalConfusionDouble(terms, 1, DoubleZero), DoubleOf(Len(terms)))

\* len(sequence_key.split("-")): the key "" of a blank word splits into ['']
KeySyllables(sequence) == IF sequence = <<>> THEN 1 ELSE Len(sequence)

\* {1: 1.0, 2: 0.5, 3: 0.25}.get(syllable_count, 0.1)
SyllablePenalty(syllable_count) ==
    IF syllable_count = 1 THEN <<1, 1>>
    ELSE IF syllable_count = 2 THEN <<1, 2>>
    ELSE IF syllable_count = 3 THEN <<1, 4>>
    ELSE <<1, 10>>

\* _calculate_priority_score from the rows its key reads:
\* syllable_penalty * (0.5 + (confusion_factor - 1.0))
PriorityScoreDouble(terms) ==
    DoubleMul(DoubleFrac(SyllablePenalty(IF terms = <<>> THEN 1 ELSE Len(terms))),
              DoubleAdd(DoubleHalf, DoubleSub(ConfusionFactorDouble(terms), DoubleOne)))

\* ToneDrillService._calculate_priority_score
\* _get_confusion_factor parses the key when it has a state: int('') of a
\* blank key raises
ToneDrillService__calculate_priority_score(sequence, confusion_state) ==
    IF confusion_state # None /\ ParseKey(sequence).raised # ""
    THEN [raised |-> ParseKey(sequence).raised]
    ELSE PriorityScoreDouble(ConfusionTerms(sequence, confusion_state))

\* the error of a term, 1 - correct_prob or 0
TermError(term) == IF term = <<>> THEN <<0, 1>> ELSE FracOneMinus(term)
TermsFit(terms) ==
    Len(terms) <= 10 /\ \A i \in 1..Len(terms) : FixedFits(TermError(terms[i]))
\* the score to six places, rounded down, times the weight: the number of
\* syllables over the penalty
ScoreWeight(terms) ==
    IF terms = <<>> THEN 1 ELSE Len(terms) * SyllablePenalty(Len(terms))[2]
ScoreTerms(terms) == IF terms = <<>> THEN 1 ELSE Len(terms)
ScoreFixed(terms) ==
    ScoreTerms(terms) * (FixedOne \div 2)
        + SeqSum([i \in 1..Len(terms) |-> Fixed(TermError(terms[i]))])

\* score(x) < score(y) for the rows the keys x and y read
PriorityScoreLess(x, y) == Float("PriorityScoreLess", <<x, y>>)
PriorityScoreLessBody(x, y) ==
    IF x = y THEN FALSE
    ELSE IF /\ TermsFit(x) /\ TermsFit(y)
            /\ (ScoreFixed(x) + ScoreTerms(x) + 1) * ScoreWeight(y)
                   < ScoreFixed(y) * ScoreWeight(x)
    THEN TRUE
    ELSE IF /\ TermsFit(x) /\ TermsFit(y)
            /\ (ScoreFixed(y) + ScoreTerms(y) + 1) * ScoreWeight(x)
                   < ScoreFixed(x) * ScoreWeight(y)
    THEN FALSE
    ELSE DoubleLess(PriorityScoreDouble(x), PriorityScoreDouble(y))

\* scored.sort(key = lambda x: x[1], reverse = True), a stable sort: the
\* place after the sort of entry i of the entries whose keys read terms
ScoredRank(terms, i) == Float("ScoredRank", <<terms, i>>)
ScoredRankBody(terms, i) ==
    Cardinality({j \in 1..Len(terms) : PriorityScoreLess(terms[i], terms[j])})
        + Cardinality({j \in 1..(i - 1) : /\ ~PriorityScoreLess(terms[i], terms[j])
                                          /\ ~PriorityScoreLess(terms[j], terms[i])})
        + 1

\* the operation op on the arguments a
Float(op, a) ==
    CASE op = "DoubleRound" /\ Len(a) = 4 -> DoubleRoundBody(a[1], a[2], a[3], a[4])
      [] op = "DoubleOf" /\ Len(a) = 1 -> DoubleOfBody(a[1])
      [] op = "DoubleMul" /\ Len(a) = 2 -> DoubleMulBody(a[1], a[2])
      [] op = "DoubleDiv" /\ Len(a) = 2 -> DoubleDivBody(a[1], a[2])
      [] op = "DoubleAdd" /\ Len(a) = 2 -> DoubleAddBody(a[1], a[2])
      [] op = "beta_mixture_approx_double" /\ Len(a) = 2 -> beta_mixture_approx_doubleBody(a[1], a[2])
      [] op = "MixtureMomentsDouble" /\ Len(a) = 4 -> MixtureMomentsDoubleBody(a[1], a[2], a[3], a[4])
      [] op = "MixtureParamsDouble" /\ Len(a) = 2 -> MixtureParamsDoubleBody(a[1], a[2])
      [] op = "PairMeanBelow" /\ Len(a) = 6 -> PairMeanBelowBody(a[1], a[2], a[3], a[4], a[5], a[6])
      [] op = "SuccessMeanBelow" /\ Len(a) = 2 -> SuccessMeanBelowBody(a[1], a[2])
      [] op = "ConfusionMeanBelow" /\ Len(a) = 2 -> ConfusionMeanBelowBody(a[1], a[2])
      [] op = "SortedPair" /\ Len(a) = 5 -> SortedPairBody(a[1], a[2], a[3], a[4], a[5])
      [] op = "ConfusionSorted" /\ Len(a) = 2 -> ConfusionSortedBody(a[1], a[2])
      [] op = "PairCorrectBelow" /\ Len(a) = 2 -> PairCorrectBelowBody(a[1], a[2])
      [] op = "FourChoiceCorrectBelow" /\ Len(a) = 2 -> FourChoiceCorrectBelowBody(a[1], a[2])
      [] op = "PriorityScoreLess" /\ Len(a) = 2 -> PriorityScoreLessBody(a[1], a[2])
      [] op = "ScoredRank" /\ Len(a) = 2 -> ScoredRankBody(a[1], a[2])

\* _sample_multi_syllable from "words = self._words_by_sequence.get(...)"
\* on, for the entry i that the weighted draw over the top three selected
ToneDrillService__sample_multi_syllable_of(cat, i, d) ==
    LET words == cat[i].words
        parsed == ParseKey(cat[i].key)
    IN  IF words = <<>> THEN None
        ELSE IF parsed.raised # "" THEN [raised |-> parsed.raised]
        ELSE DrillData(PyChoice(words, d.word), cat[i].key, parsed.value,
                 ToneDrillService__generate_distractors(parsed.value, d))

\* ToneDrillService._sample_multi_syllable
ToneDrillService__sample_multi_syllable(cat, confusion_state, draw) ==
    LET d == draw.d
        n == Len(cat)
        terms == [i \in 1..n |-> ConfusionTerms(cat[i].key, confusion_state)]
        top_n == IF n < 3 THEN n ELSE 3
    IN  IF confusion_state # None /\ \E i \in 1..n : ParseKey(cat[i].key).raised # ""
        THEN [raised |-> "ValueError"]
        ELSE IF n = 0
        THEN LET fallback == ToneDrillService_get_any_word(cat, d)
             IN  IF fallback = None THEN None
                 ELSE LET parsed == ParseKey(fallback.key)
                      IN  IF parsed.raised # "" THEN [raised |-> parsed.raised]
                          ELSE DrillData(fallback.word, fallback.key, parsed.value,
                                   ToneDrillService__generate_distractors(parsed.value, d))
        ELSE ToneDrillService__sample_multi_syllable_of(cat,
                 CHOOSE j \in 1..n : ScoredRank(terms, j) = ((d.pick - 1) % top_n) + 1, d)

\* ToneDrillService._sample_2_syllable
ToneDrillService__sample_2_syllable(cat, confusion_state, draw) ==
    LET d == draw.d
        two_syllable_keys == TwoSyllableKeys(cat)
        pair1 == PairList[draw.w]
        pair2 == PairList[draw.w2]
        tone1 == IF d.coin THEN pair1[1] ELSE pair1[2]
        tone2 == IF draw.coin2 THEN pair2[1] ELSE pair2[2]
        \* the combinations of the two pairs, in the order the loops try them
        combos == << <<pair1[1], pair2[1]>>, <<pair1[1], pair2[2]>>,
                     <<pair1[2], pair2[1]>>, <<pair1[2], pair2[2]>> >>
        hit(i) == WordsFor(cat, combos[i]) # <<>>
        found == IF WordsFor(cat, <<tone1, tone2>>) # <<>>
                 THEN [key |-> <<tone1, tone2>>, pair1 |-> pair1, pair2 |-> pair2]
                 ELSE IF \E i \in 1..4 : hit(i)
                 THEN [key |-> combos[CHOOSE i \in 1..4 :
                                   hit(i) /\ \A l \in 1..(i - 1) : ~hit(l)],
                       pair1 |-> pair1, pair2 |-> pair2]
                 ELSE LET key == two_syllable_keys[1]
                      IN  [key |-> key,
                           pair1 |-> <<key[1], (key[1] % 6) + 1>>,
                           pair2 |-> <<key[2], (key[2] % 6) + 1>>]
    IN  IF two_syllable_keys = <<>>
        THEN ToneDrillService__sample_multi_syllable(cat, confusion_state, draw)
        ELSE LET alternatives ==
                     << <<found.pair1[1], found.pair2[1]>>, <<found.pair1[1], found.pair2[2]>>,
                        <<found.pair1[2], found.pair2[1]>>, <<found.pair1[2], found.pair2[2]>> >>
             IN  DrillData(PyChoice(WordsFor(cat, found.key), d.word), found.key,
                           found.key,
                           PyShuffle(alternatives, d.shuffle))

\* ToneDrillService.sample_next_drill from its second statement, the
\* difficulty computed
ToneDrillService_sample_next_drill_at(cat, confusion_state, difficulty, draw) ==
    IF draw.preview /\ difficulty = "2-choice"
    THEN ToneDrillService__sample_4_choice(cat, draw)
    ELSE IF draw.preview /\ difficulty = "4-choice"
    THEN ToneDrillService__sample_2_syllable(cat, confusion_state, draw)
    ELSE IF difficulty = "2-choice"
    THEN ToneDrillService__sample_2_choice(cat, draw)
    ELSE IF difficulty = "4-choice"
    THEN ToneDrillService__sample_4_choice(cat, draw)
    ELSE ToneDrillService__sample_multi_syllable(cat, confusion_state, draw)

\* ToneDrillService.sample_next_drill
ToneDrillService_sample_next_drill(cat, confusion_state, draw) ==
    ToneDrillService_sample_next_drill_at(cat, confusion_state,
        ToneDrillService_get_difficulty_level(confusion_state), draw)

--------------------------------------------------------------------------
(***************************************************************************)
(* The legacy confusion matrices (services/tone_drill.py and               *)
(* services/vowel_drill.py): a global matrix and one matrix per context.   *)
(* A context key f"{syl}-{pos}" is held as the pair <<syl, pos>>.          *)
(***************************************************************************)
\* number of classes of a legacy service: 6 tones, NUM_VOWELS vowels
LegacyClasses(service) == IF service = "tone" THEN N_TONES ELSE NUM_VOWELS

ZeroMatrix(n) == [i \in 1..n |-> [j \in 1..n |-> 0]]

\* ConfusionState(counts=[[0] * n for _ in range(n)]), counts_by_context={}
LegacyInitialState(n) == [counts |-> ZeroMatrix(n), counts_by_context |-> EmptyDict]

PyMin(a, b) == IF a < b THEN a ELSE b

\* ConfusionState.get_context_key: syllable_count capped at 3, position at 2
get_context_key(syllable_count, position) ==
    <<PyMin(syllable_count, 3), PyMin(position, 2)>>

MatrixSum(counts) == SeqSum([i \in 1..Len(counts) |-> SeqSum(counts[i])])

\* get_total_attempts: sum(sum(row) for row in confusion_state.counts)
get_total_attempts(confusion_state) ==
    IF confusion_state = None THEN 0 ELSE MatrixSum(confusion_state.counts)

\* 0 <= correct_idx < n and 0 <= chosen_idx < n, on 1-indexed classes
InRangePosition(n, correct, chosen) ==
    /\ 0 <= correct - 1 /\ correct - 1 < n
    /\ 0 <= chosen - 1 /\ chosen - 1 < n

\* one iteration of the loop of update_confusion_matrix, at 0-based position i
UpdatePosition(n, st, key, correct, chosen) ==
    IF InRangePosition(n, correct, chosen)
    THEN [ counts |-> [st.counts EXCEPT ![correct][chosen] = @ + 1],
           counts_by_context |->
               DictSet(st.counts_by_context, key,
                       [(IF key \in DOMAIN st.counts_by_context
                         THEN st.counts_by_context[key] ELSE ZeroMatrix(n))
                        EXCEPT ![correct][chosen] = @ + 1]) ]
    ELSE st

\* for i in range(min_len), from position i on
RECURSIVE UpdatePositions(_, _, _, _, _)
UpdatePositions(n, st, correct_sequence, selected_sequence, i) ==
    IF i >= PyMin(Len(correct_sequence), Len(selected_sequence)) THEN st
    ELSE UpdatePositions(n,
             UpdatePosition(n, st, get_context_key(Len(correct_sequence), i),
                            correct_sequence[i + 1], selected_sequence[i + 1]),
             correct_sequence, selected_sequence, i + 1)

\* the loop with the global increment only
RECURSIVE UpdateGlobalOnly(_, _, _, _, _)
UpdateGlobalOnly(n, st, correct_sequence, selected_sequence, i) ==
    IF i >= PyMin(Len(correct_sequence), Len(selected_sequence)) THEN st
    ELSE UpdateGlobalOnly(n,
             IF InRangePosition(n, correct_sequence[i + 1], selected_sequence[i + 1])
             THEN [st EXCEPT !.counts[correct_sequence[i + 1]][selected_sequence[i + 1]] = @ + 1]
             ELSE st,
             correct_sequence, selected_sequence, i + 1)

\* an update that leaves the per-context matrices alone
update_confusion_matrix_global_only(n, confusion_state, correct_sequence, selected_sequence) ==
    UpdateGlobalOnly(n, confusion_state, correct_sequence, selected_sequence, 0)

\* ToneDrillService.update_confusion_matrix (n = 6) and
\* VowelDrillService.update_confusion_matrix (n = NUM_VOWELS)
update_confusion_matrix(n, confusion_state, correct_sequence, selected_sequence) ==
    UpdatePositions(n, confusion_state, correct_sequence, selected_sequence, 0)

--------------------------------------------------------------------------
(***************************************************************************)
(* The legacy vowel drill (services/vowel_drill.py).  Vowels are written   *)
(* 1-indexed throughout, as the tones are; the service's 0-indexed pairs   *)
(* and sets are the same lists shifted by one.  A syllable is held as the  *)
(* characters of it that VOWEL_CHAR_MAP knows, each with its vowel id and  *)
(* whether it is a base form (one of VOWEL_NAMES, no tone mark).           *)
(***************************************************************************)
VowelDrill_MIN_TOTAL_2CHOICE_ATTEMPTS == 200
VowelDrill_PAIR_MASTERY_THRESHOLD == <<4, 5>>
VowelDrill_FOUR_CHOICE_MASTERY_THRESHOLD == <<4, 5>>

VOWEL_CONFUSION_GROUPS ==
    << <<6, 12>>, <<4, 5>>, <<1, 2, 3>>, <<7, 8, 9>>, <<10, 11>> >>

VowelChar(id, base) == [id |-> id, base |-> base]

\* openness_rank.get(vowel_id, 12)
openness_rank(vowel_id) ==
    IF vowel_id <= 5 THEN vowel_id
    ELSE IF vowel_id = 6 \/ vowel_id = 12 THEN 11
    ELSE vowel_id - 1

\* extract_vowel_nucleus: <<>> for None, <<id>> for the id of the nucleus
extract_vowel_nucleus(vowel_positions) ==
    IF vowel_positions = <<>> THEN <<>>
    ELSE IF Len(vowel_positions) = 1 THEN <<vowel_positions[1].id>>
    ELSE IF \E i \in DOMAIN vowel_positions : ~vowel_positions[i].base
    THEN <<vowel_positions[CHOOSE i \in DOMAIN vowel_positions :
               /\ ~vowel_positions[i].base
               /\ \A l \in 1..(i - 1) : vowel_positions[l].base].id>>
    ELSE <<vowel_positions[CHOOSE i \in DOMAIN vowel_positions :
               \A l \in DOMAIN vowel_positions :
                   \/ openness_rank(vowel_positions[l].id)
                          > openness_rank(vowel_positions[i].id)
                   \/ /\ openness_rank(vowel_positions[l].id)
                             = openness_rank(vowel_positions[i].id)
                      /\ l >= i].id>>

\* get_vowel_sequence on the syllables of word.strip().split()
RECURSIVE get_vowel_sequence(_)
get_vowel_sequence(syllables) ==
    IF syllables = <<>> THEN <<>>
    ELSE extract_vowel_nucleus(Head(syllables)) \o get_vowel_sequence(Tail(syllables))

\* word.vietnamese of the words of the word indexes: ba, ăn, má, xe, ghế,
\* ly, con mèo, tôi, mùa thu, hoa mai, and the blank word
Vietnamese(word) ==
    CASE word = 11 -> << <<VowelChar(1, TRUE)>> >>
      [] word = 12 -> << <<VowelChar(2, TRUE)>> >>
      [] word = 13 -> << <<VowelChar(1, FALSE)>> >>
      [] word = 14 -> << <<VowelChar(4, TRUE)>> >>
      [] word = 15 -> << <<VowelChar(5, FALSE)>> >>
      [] word = 16 -> << <<VowelChar(12, TRUE)>> >>
      [] word = 21 -> << <<VowelChar(7, TRUE)>>,
                         <<VowelChar(4, FALSE), VowelChar(7, TRUE)>> >>
      [] word = 25 -> << <<VowelChar(8, TRUE), VowelChar(6, TRUE)>> >>
      [] word = 32 -> << <<VowelChar(10, FALSE), VowelChar(1, TRUE)>>,
                         <<VowelChar(10, TRUE)>> >>
      [] word = 61 -> << <<VowelChar(7, TRUE), VowelChar(1, TRUE)>>,
                         <<VowelChar(1, TRUE), VowelChar(6, TRUE)>> >>
      [] OTHER -> <<>>

\* the words of the file, in the order of the tone index
RECURSIVE CatalogWords(_)
CatalogWords(cat) ==
    IF cat = <<>> THEN <<>> ELSE Head(cat).words \o CatalogWords(Tail(cat))

\* the loop of VowelDrillService._load_words from the k-th word on
RECURSIVE IndexWords(_, _, _)
IndexWords(words, k, index) ==
    IF k > Len(words) THEN index
    ELSE LET sequence == get_vowel_sequence(Vietnamese(words[k]))
         IN  IF sequence = <<>> THEN IndexWords(words, k + 1, index)
             ELSE IF \E i \in DOMAIN index : index[i].key = sequence
             THEN IndexWords(words, k + 1,
                      [index EXCEPT ![CHOOSE i \in DOMAIN index :
                                          index[i].key = sequence].words =
                                        Append(@, words[k])])
             ELSE IndexWords(words, k + 1,
                      Append(index, [key |-> sequence, words |-> <<words[k]>>]))

\* VowelDrillService._load_words: _words_by_sequence of the words of cat
VowelDrillService__load_words(cat) == IndexWords(CatalogWords(cat), 1, <<>>)

\* VowelDrillService.get_all_pairs
VowelPairList ==
    LET n == NUM_VOWELS
    IN  SelectSeq([k \in 1..(n * n) |-> <<((k - 1) \div n) + 1, ((k - 1) % n) + 1>>],
                  LAMBDA pr : pr[1] < pr[2])

\* VowelDrillService.get_confusion_group
VowelDrillService_get_confusion_group(vowel_idx) ==
    IF \E g \in DOMAIN VOWEL_CONFUSION_GROUPS : vowel_idx \in Range(VOWEL_CONFUSION_GROUPS[g])
    THEN VOWEL_CONFUSION_GROUPS[CHOOSE g \in DOMAIN VOWEL_CONFUSION_GROUPS :
             /\ vowel_idx \in Range(VOWEL_CONFUSION_GROUPS[g])
             /\ \A l \in 1..(g - 1) : vowel_idx \notin Range(VOWEL_CONFUSION_GROUPS[l])]
    ELSE <<vowel_idx>>

\* sorted(s) of a set of integers
SortedList(s) ==
    [ i \in 1..Cardinality(s) |->
        CHOOSE x \in s : Cardinality({y \in s : y < x}) = i - 1 ]

\* the sets sample_four_choice_set returns for a pair it sampled: the pair
\* with two of the candidates of the confusion groups, or with the
\* candidates and random vowels for the rest
FourChoiceSetsOf(pair) ==
    LET candidates ==
            (Range(VowelDrillService_get_confusion_group(pair[1]))
                \cup Range(VowelDrillService_get_confusion_group(pair[2])))
            \ {pair[1], pair[2]}
        remaining == (1..NUM_VOWELS) \ ({pair[1], pair[2]} \cup candidates)
        additional ==
            IF Cardinality(candidates) >= 2
            THEN {x \in SUBSET candidates : Cardinality(x) = 2}
            ELSE {candidates \cup x : x \in {y \in SUBSET remaining :
                      Cardinality(y) = 2 - Cardinality(candidates)}}
    IN  { SortedList({pair[1], pair[2]} \cup x) : x \in additional }

\* the place of a set among the sets of its pair
FourChoiceOrder(set) == ((set[1] * 13 + set[2]) * 13 + set[3]) * 13 + set[4]

\* VowelDrillService.sample_four_choice_set: every error probability is
\* positive, so every pair is a possible outcome of weighted_sample
FourChoiceSetAt(sets, pick) ==
    CHOOSE x \in sets :
        Cardinality({y \in sets : FourChoiceOrder(y) < FourChoiceOrder(x)})
            = pick % Cardinality(sets)

VowelDrillService_sample_four_choice_set(draw) ==
    FourChoiceSetAt(FourChoiceSetsOf(VowelPairList[draw.w]), draw.d.pick)

\* every set sample_four_choice_set can return
VowelFourChoiceSets ==
    UNION { FourChoiceSetsOf(VowelPairList[k]) : k \in 1..Len(VowelPairList) }

\* confusion_state.counts if confusion_state else
\* [[0] * NUM_VOWELS for _ in range(NUM_VOWELS)]
VowelDrill_counts(confusion_state) ==
    IF confusion_state = None THEN ZeroMatrix(NUM_VOWELS) ELSE confusion_state.counts

\* VowelDrillService.get_pair_error_probability
VowelDrillService_get_pair_error_probability(confusion_state, a, b) ==
    PairErrorProbability(PairErrors(VowelDrill_counts(confusion_state), a, b))

\* VowelDrillService.are_all_pairs_mastered
VowelDrillService_are_all_pairs_mastered(confusion_state) ==
    /\ confusion_state # None
    /\ get_total_attempts(confusion_state) >= VowelDrill_MIN_TOTAL_2CHOICE_ATTEMPTS
    /\ \A pr \in AllPairs(NUM_VOWELS) :
          ~PairCorrectBelow(PairErrors(VowelDrill_counts(confusion_state), pr[1], pr[2]),
                            VowelDrill_PAIR_MASTERY_THRESHOLD)

\* VowelDrillService.are_four_choice_sets_mastered: what it can return on
\* its 20 sampled sets.  The samples may all be one set, so it can return
\* True when a set it can sample is mastered and False when one is not.
VowelDrillService_are_four_choice_sets_mastered(confusion_state) ==
    IF confusion_state = None THEN {FALSE}
    ELSE { ~FourChoiceCorrectBelow(
                FourChoiceCorrectProbs(VowelDrill_counts(confusion_state), sample_set),
                VowelDrill_FOUR_CHOICE_MASTERY_THRESHOLD) :
           sample_set \in VowelFourChoiceSets }

\* VowelDrillService.get_difficulty_level; four_choice is what
\* are_four_choice_sets_mastered returns on its 20 sampled sets
VowelDrillService_get_difficulty_level(confusion_state, four_choice) ==
    IF ~VowelDrillService_are_all_pairs_mastered(confusion_state) THEN "2-choice"
    ELSE IF ~four_choice THEN "4-choice"
    ELSE "multi-syllable"

\* the levels a call of get_difficulty_level can return
VowelDifficultyLevels(confusion_state) ==
    IF ~VowelDrillService_are_all_pairs_mastered(confusion_state) THEN {"2-choice"}
    ELSE { VowelDrillService_get_difficulty_level(confusion_state, four_choice) :
           four_choice \in VowelDrillService_are_four_choice_sets_mastered(confusion_state) }

\* VowelDrillService.get_any_mono_syllabic_word
VowelDrillService_get_any_mono_syllabic_word(index, d) ==
    LET shuffled_vowels == PyShuffle([v \in 1..NUM_VOWELS |-> v], d.remaining)
        has(i) == WordsFor(index, <<shuffled_vowels[i]>>) # <<>>
    IN  IF ~\E i \in 1..NUM_VOWELS : has(i) THEN None
        ELSE LET vowel == shuffled_vowels[CHOOSE i \in 1..NUM_VOWELS :
                              has(i) /\ \A l \in 1..(i - 1) : ~has(l)]
                 other_vowel == IF vowel < NUM_VOWELS THEN vowel + 1 ELSE vowel - 1
             IN  [ word |-> PyChoice(WordsFor(index, <<vowel>>), d.word),
                   key |-> <<vowel>>, alts |-> <<vowel, other_vowel>> ]

\* the fill of VowelDrillService._generate_distractors (its second loop)
RECURSIVE VowelFillDistractors(_, _)
VowelFillDistractors(distractors, correct_sequence) ==
    IF Len(distractors) >= 4 THEN distractors
    ELSE LET fallback == [i \in 1..Len(correct_sequence) |->
                             (correct_sequence[i] % NUM_VOWELS) + 1]
             ramp     == [i \in 1..Len(correct_sequence) |-> ((i - 1) % NUM_VOWELS) + 1]
         IN  IF fallback \notin Range(distractors)
             THEN VowelFillDistractors(Append(distractors, fallback), correct_sequence)
             ELSE VowelFillDistractors(Append(distractors, ramp), correct_sequence)

\* VowelDrillService._generate_distractors: the correct sequence, the
\* distinct sequences up to 100 attempts find, the fill, and
\* random.shuffle(distractors)
VowelDrillService__generate_distractors(correct_sequence, d) ==
    PyShuffle(VowelFillDistractors(TryDistractors(<<correct_sequence>>, correct_sequence,
                                                  d.attempts, 100, NUM_VOWELS),
                                   correct_sequence),
              d.shuffle)

\* VowelDrillService._sample_2_choice
VowelDrillService__sample_2_choice(index, draw) ==
    LET d == draw.d
        selected_pair == VowelPairList[draw.w]
        first == IF d.coin THEN selected_pair[1] ELSE selected_pair[2]
        other == IF d.coin THEN selected_pair[2] ELSE selected_pair[1]
        selected_vowel == IF WordsFor(index, <<first>>) # <<>> THEN first ELSE other
        words == WordsFor(index, <<selected_vowel>>)
    IN  IF words = <<>>
        THEN LET fallback == VowelDrillService_get_any_mono_syllabic_word(index, d)
             IN  IF fallback = None THEN None
                 ELSE DrillData(fallback.word, fallback.key, fallback.key,
                                [i \in 1..2 |-> <<fallback.alts[i]>>])
        ELSE DrillData(PyChoice(words, d.word), <<selected_vowel>>, <<selected_vowel>>,
                       << <<selected_pair[1]>>, <<selected_pair[2]>> >>)

\* VowelDrillService._sample_4_choice from "for idx in shuffled_indices" on
VowelDrillService__sample_4_choice_of(index, d, selected_set, shuffled_indices) ==
    LET has(i) == WordsFor(index, <<selected_set[shuffled_indices[i]]>>) # <<>>
        alternatives == [i \in 1..4 |-> <<selected_set[i]>>]
    IN  IF ~\E i \in 1..4 : has(i)
        THEN LET fallback == VowelDrillService_get_any_mono_syllabic_word(index, d)
             IN  IF fallback = None THEN None
                 ELSE DrillData(fallback.word, fallback.key, fallback.key, alternatives)
        ELSE LET selected_vowel ==
                     selected_set[shuffled_indices[CHOOSE i \in 1..4 :
                         has(i) /\ \A l \in 1..(i - 1) : ~has(l)]]
             IN  DrillData(PyChoice(WordsFor(index, <<selected_vowel>>), d.word),
                           <<selected_vowel>>, <<selected_vowel>>, alternatives)

\* selected_set = self.sample_four_choice_set(confusion_state);
\* shuffled_indices = list(range(4)); random.shuffle(shuffled_indices)
VowelDrillService__sample_4_choice(index, draw) ==
    VowelDrillService__sample_4_choice_of(index, draw.d,
        VowelDrillService_sample_four_choice_set(draw),
        PyShuffle(<<1, 2, 3, 4>>, draw.d.shuffle))

\* _sample_multi_syllable from random.choice(words) on, for the entry i
\* that the weighted draw over the top three selected
VowelDrillService__sample_multi_syllable_of(index, i, d) ==
    DrillData(PyChoice(index[i].words, d.word), index[i].key, index[i].key,
              VowelDrillService__generate_distractors(index[i].key, d))

\* VowelDrillService._sample_multi_syllable: every score is positive, so
\* every key is scored, and get_any_word finds no word when there is no key
VowelDrillService__sample_multi_syllable(index, confusion_state, draw) ==
    LET d == draw.d
        n == Len(index)
        terms == [i \in 1..n |-> ConfusionTerms(index[i].key, confusion_state)]
        top_n == IF n < 3 THEN n ELSE 3
    IN  IF n = 0 THEN None
        ELSE VowelDrillService__sample_multi_syllable_of(index,
                 CHOOSE j \in 1..n : ScoredRank(terms, j) = ((d.pick - 1) % top_n) + 1, d)

\* VowelDrillService._sample_2_syllable
VowelDrillService__sample_2_syllable(index, confusion_state, draw) ==
    LET d == draw.d
        two_syllable_keys == TwoSyllableKeys(index)
        pair1 == VowelPairList[draw.w]
        pair2 == VowelPairList[draw.w2]
        vowel1 == IF d.coin THEN pair1[1] ELSE pair1[2]
        vowel2 == IF draw.coin2 THEN pair2[1] ELSE pair2[2]
        \* the combinations of the two pairs, in the order the loops try them
        combos == << <<pair1[1], pair2[1]>>, <<pair1[1], pair2[2]>>,
                     <<pair1[2], pair2[1]>>, <<pair1[2], pair2[2]>> >>
        hit(i) == WordsFor(index, combos[i]) # <<>>
        found == IF WordsFor(index, <<vowel1, vowel2>>) # <<>>
                 THEN [key |-> <<vowel1, vowel2>>, pair1 |-> pair1, pair2 |-> pair2]
                 ELSE IF \E i \in 1..4 : hit(i)
                 THEN [key |-> combos[CHOOSE i \in 1..4 :
                                   hit(i) /\ \A l \in 1..(i - 1) : ~hit(l)],
                       pair1 |-> pair1, pair2 |-> pair2]
                 ELSE LET key == two_syllable_keys[1]
                      IN  [key |-> key,
                           pair1 |-> <<key[1], (key[1] % NUM_VOWELS) + 1>>,
                           pair2 |-> <<key[2], (key[2] % NUM_VOWELS) + 1>>]
    IN  IF two_syllable_keys = <<>>
        THEN VowelDrillService__sample_multi_syllable(index, confusion_state, draw)
        ELSE LET alternatives ==
                     << <<found.pair1[1], found.pair2[1]>>, <<found.pair1[1], found.pair2[2]>>,
                        <<found.pair1[2], found.pair2[1]>>, <<found.pair1[2], found.pair2[2]>> >>
             IN  DrillData(PyChoice(WordsFor(index, found.key), d.word), found.key,
                           found.key,
                           PyShuffle(alternatives, d.shuffle))

\* VowelDrillService.sample_next_drill from its second statement, the
\* difficulty computed
VowelDrillService_sample_next_drill_at(index, confusion_state, difficulty, draw) ==
    IF draw.preview /\ difficulty = "2-choice"
    THEN VowelDrillService__sample_4_choice(index, draw)
    ELSE IF draw.preview /\ difficulty = "4-choice"
    THEN VowelDrillService__sample_2_syllable(index, confusion_state, draw)
    ELSE IF difficulty = "2-choice"
    THEN VowelDrillService__sample_2_choice(index, draw)
    ELSE IF difficulty = "4-choice"
    THEN VowelDrillService__sample_4_choice(index, draw)
    ELSE VowelDrillService__sample_multi_syllable(index, confusion_state, draw)

--------------------------------------------------------------------------
(***************************************************************************)
(* The handlers on user_progress and the card tables (routers/             *)
(* tone_drill.py, routers/vowel_drill.py, routers/sync.py).  Every request is a coroutine *)
(* with a database session of its own (get_session), and a step is one     *)
(* awaited database operation with the synchronous code that follows it,   *)
(* so the steps of the requests in flight interleave.  A session holds the *)
(* objects it loaded or added: `loaded` is the row as read, `obj` the      *)
(* attributes as the handler left them, `at` the row's place in its table  *)
(* (0: added, not inserted yet).  What a session writes is in the tables   *)
(* from its commit on.  pure.last is what the latest step returned or       *)
(* raised, None after a step that ends at an await.                        *)
(***************************************************************************)
\* a row of user_progress: the columns the handlers read and write
UserProgress(confusion_state, last_review_date, reviews_today, correct_today, total_reviews, total_correct, vowel_confusion_state) ==
    [ confusion_state |-> confusion_state, last_review_date |-> last_review_date,
      reviews_today |-> reviews_today, correct_today |-> correct_today,
      total_reviews |-> total_reviews, total_correct |-> total_correct,
      vowel_confusion_state |-> vowel_confusion_state ]

\* a row of user_tone_cards
UserToneCard(sequence_key, card_data, correct, total) ==
    [sequence_key |-> sequence_key, card_data |-> card_data,
     correct |-> correct, total |-> total]

\* a row of user_vowel_cards
UserVowelCard(sequence_key, card_data, correct, total) ==
    [sequence_key |-> sequence_key, card_data |-> card_data,
     correct |-> correct, total |-> total]

\* a row of user_word_cards
UserWordCard(word_id, card_data) == [word_id |-> word_id, card_data |-> card_data]

\* "-".join(str(t) for t in answer.correct_sequence)
RECURSIVE sequence_key_of(_)
sequence_key_of(seq) ==
    IF seq = <<>> THEN <<>>
    ELSE IF Len(seq) = 1 THEN Chars(ToString(seq[1]))
    ELSE Chars(ToString(seq[1])) \o <<"-">> \o sequence_key_of(Tail(seq))

\* confusion_state_from_dict
confusion_state_from_dict(data) ==
    IF data = None \/ data = EmptyDict \/ "counts" \notin DOMAIN data THEN None
    ELSE [counts |-> data.counts, counts_by_context |-> EmptyDict]

\* confusion_state_to_dict
confusion_state_to_dict(state) == [counts |-> state.counts]

\* an object of a session
SessionObject(at, loaded, obj) == [at |-> at, loaded |-> loaded, obj |-> obj]

\* the objects of a select that returns every row of a table
LoadAll(table) == [i \in DOMAIN table |-> SessionObject(i, table[i], table[i])]

\* select(...).where(...) ... scalar_one_or_none() on a card table: the
\* rows of the table and, flushed by the select, the rows the session has
\* added; a row the session holds already is the object it holds, its
\* attributes as they are.  j is the object's place in the session, 0 for
\* no row.
SelectOne(table, objects, match(_)) ==
    LET rows == { i \in DOMAIN table : match(table[i]) }
        added == { j \in DOMAIN objects : objects[j].at = 0 /\ match(objects[j].obj) }
        held == { j \in DOMAIN objects : objects[j].at \in rows }
    IN  IF Cardinality(rows) + Cardinality(added) > 1
        THEN [raised |-> "MultipleResultsFound", objects |-> objects, j |-> 0]
        ELSE IF added # {}
        THEN [raised |-> "", objects |-> objects, j |-> CHOOSE j \in added : TRUE]
        ELSE IF rows = {}
        THEN [raised |-> "", objects |-> objects, j |-> 0]
        ELSE IF held # {}
        THEN [raised |-> "", objects |-> objects, j |-> CHOOSE j \in held : TRUE]
        ELSE LET i == CHOOSE i \in rows : TRUE
             IN  [ raised |-> "",
                   objects |-> Append(objects, SessionObject(i, table[i], table[i])),
                   j |-> Len(objects) + 1 ]

\* select(UserProgress).where(user_id == ...) ... scalar_one_or_none():
\* user_id is unique, the table holds the user's row or none
SelectProgress(row) == IF row = None THEN None ELSE SessionObject(1, row, row)

\* the UPDATE of a flush: the columns whose value differs from the loaded one
Flush(row, o) ==
    [f \in DOMAIN row |-> IF o.obj[f] # o.loaded[f] THEN o.obj[f] ELSE row[f]]

\* a card table after a flush is committed: an UPDATE per object loaded,
\* an INSERT per object added
RECURSIVE FlushTable(_, _, _)
FlushTable(table, objects, j) ==
    IF j > Len(objects) THEN table
    ELSE FlushTable(IF objects[j].at = 0 THEN Append(table, objects[j].obj)
                    ELSE [table EXCEPT ![objects[j].at] = Flush(@, objects[j])],
                    objects, j + 1)

\* the session's objects after its commit (expire_on_commit=False): the
\* added ones are rows, the attributes are the loaded ones
Persistent(objects, n) ==
    [ j \in DOMAIN objects |->
        SessionObject(IF objects[j].at # 0 THEN objects[j].at
                      ELSE n + Cardinality({ l \in 1..j : objects[l].at = 0 }),
                      objects[j].obj, objects[j].obj) ]

\* the four tables
Tables(p) ==
    [ progress |-> p.progress, tone_cards |-> p.tone_cards,
      vowel_cards |-> p.vowel_cards, word_cards |-> p.word_cards ]

\* await session.commit(): the flush in one transaction; the INSERT of a
\* second row of user_progress for the user fails the transaction
session_commit(db, r) ==
    IF r.progress # None /\ r.progress.at = 0 /\ db.progress # None
    THEN [raised |-> "IntegrityError", db |-> db, req |-> r]
    ELSE [ raised |-> "",
           db |-> [ progress |-> IF r.progress = None THEN db.progress
                                 ELSE IF r.progress.at = 0 THEN r.progress.obj
                                 ELSE Flush(db.progress, r.progress),
                    tone_cards |-> FlushTable(db.tone_cards, r.tone_cards, 1),
                    vowel_cards |-> FlushTable(db.vowel_cards, r.vowel_cards, 1),
                    word_cards |-> FlushTable(db.word_cards, r.word_cards, 1) ],
           req |-> [r EXCEPT
                      !.progress = IF r.progress = None THEN None
                                   ELSE SessionObject(1, r.progress.obj, r.progress.obj),
                      !.tone_cards = Persistent(r.tone_cards, Len(db.tone_cards)),
                      !.vowel_cards = Persistent(r.vowel_cards, Len(db.vowel_cards)),
                      !.word_cards = Persistent(r.word_cards, Len(db.word_cards))] ]

\* await session.refresh(progress)
session_refresh(db, r) ==
    [r EXCEPT !.progress = SessionObject(1, db.progress, db.progress)]

\* a coroutine: the handler, where it is, its request, and its session
LegacyReq(handler, pc, body) ==
    [ handler |-> handler, pc |-> pc, body |-> body, i |-> 1,
      progress |-> None, tone_cards |-> <<>>, vowel_cards |-> <<>>,
      word_cards |-> <<>>, confusion_state |-> None ]

\* the coroutine s is at pc of handler
At(s, handler, pc) ==
    /\ pure.reqs[s] # None
    /\ pure.reqs[s].handler = handler
    /\ pure.reqs[s].pc = pc

\* the run admits another request
Admits == pure.started < pure.admitted

\* a request arrives: its coroutine is at its first await
Arrives(req) ==
    /\ pure' = [pure EXCEPT !.started = @ + 1, !.reqs[pure.started + 1] = req,
                            !.last = None]
    /\ UNCHANGED <<sessions, attempts, catalog, hist, resp, user_state, proc>>

\* the coroutine s goes on as req
GoesOn(s, req) ==
    /\ pure' = [pure EXCEPT !.reqs[s] = req, !.last = None]
    /\ UNCHANGED <<sessions, attempts, catalog, hist, resp, user_state, proc>>

\* the coroutine s returns or raises: its session is closed
Responds(s, last) ==
    /\ pure' = [pure EXCEPT !.reqs[s] = None, !.last = last]
    /\ UNCHANGED <<sessions, attempts, catalog, hist, resp, user_state, proc>>

\* what a handler leaves when it raises
LegacyRaised(r, raised) ==
    [ op |-> r.handler, service |-> IF r.handler = "get_next_drill" THEN "tone_drill"
                                    ELSE IF r.handler = "get_next_vowel_drill"
                                    THEN "vowel_drill"
                                    ELSE "sync",
      raised |-> raised, problem |-> None, body |-> None ]

\* what a handler of routers/sync.py returns
SyncReturned(r, body) ==
    [op |-> r.handler, service |-> "sync", raised |-> "", problem |-> None, body |-> body]

\* the commit of coroutine s: it raises, or the tables are written and the
\* coroutine goes on at pc
Commits(s, pc) ==
    LET c == session_commit(Tables(pure), pure.reqs[s])
    IN  IF c.raised # "" THEN Responds(s, LegacyRaised(pure.reqs[s], c.raised))
        ELSE /\ pure' = [pure EXCEPT !.progress = c.db.progress,
                                     !.tone_cards = c.db.tone_cards,
                                     !.vowel_cards = c.db.vowel_cards,
                                     !.word_cards = c.db.word_cards,
                                     !.reqs[s] = [c.req EXCEPT !.pc = pc],
                                     !.last = None]
             /\ UNCHANGED <<sessions, attempts, catalog, hist, resp, user_state, proc>>

\* the commit of coroutine s and its return
CommitsAndReturns(s, body) ==
    LET c == session_commit(Tables(pure), pure.reqs[s])
    IN  IF c.raised # "" THEN Responds(s, LegacyRaised(pure.reqs[s], c.raised))
        ELSE /\ pure' = [pure EXCEPT !.progress = c.db.progress,
                                     !.tone_cards = c.db.tone_cards,
                                     !.vowel_cards = c.db.vowel_cards,
                                     !.word_cards = c.db.word_cards,
                                     !.reqs[s] = None,
                                     !.last = SyncReturned(pure.reqs[s], body)]
             /\ UNCHANGED <<sessions, attempts, catalog, hist, resp, user_state, proc>>

\* d.get(key, default)
DictGet(d, key, default) == IF key \in DOMAIN d THEN d[key] ELSE default

\* "Reset daily stats if new day"
ResetDaily(row) ==
    IF row.last_review_date # Today
    THEN [row EXCEPT !.reviews_today = 0, !.correct_today = 0,
                     !.last_review_date = Today]
    ELSE row

\* "Update progress stats" / "Update counts"
CountReview(row, is_correct) ==
    [row EXCEPT !.reviews_today = @ + 1,
                !.total_reviews = @ + 1,
                !.correct_today = IF is_correct THEN @ + 1 ELSE @,
                !.total_correct = IF is_correct THEN @ + 1 ELSE @]

(***************************************************************************)
(* POST /tone-drill/next (routers/tone_drill.py)                           *)
(***************************************************************************)
\* the router on the sampler's result: the drill, or the error raised when
\* there is none
ToneDrillResponse(drill_data, difficulty_level) ==
    IF drill_data = None THEN [raised |-> "ValueError", drill |-> None]
    ELSE IF "raised" \in DOMAIN drill_data
    THEN [raised |-> drill_data.raised, drill |-> None]
    ELSE [raised |-> "",
          drill |-> [ word_id |-> drill_data.word,
                      correct_sequence |-> drill_data.correct_sequence,
                      alternatives |-> drill_data.alternatives ],
          difficulty_level |-> difficulty_level]

\* the response, or the error, with the counters of DrillStats
ToneDrillStats(r, row) ==
    [ op |-> "get_next_drill", service |-> "tone_drill", raised |-> r.raised,
      problem |-> r.drill, body |-> None,
      stats |-> [ reviews_today |-> row.reviews_today,
                  correct_today |-> row.correct_today,
                  total_reviews |-> row.total_reviews,
                  total_correct |-> row.total_correct ] ]

\* get_next_drill from "Sample next drill" to its return
ToneDrillLast(cat, confusion_state, difficulty, row, draw) ==
    ToneDrillStats(
        ToneDrillResponse(
            ToneDrillService_sample_next_drill_at(cat, confusion_state, difficulty, draw),
            difficulty),
        row)

\* "Load confusion state"
ToneDrillLoaded(row) ==
    LET from_dict == confusion_state_from_dict(row.confusion_state)
    IN  IF from_dict = None THEN LegacyInitialState(N_TONES) ELSE from_dict

\* get_next_drill from "Reset daily stats if new day" to the select of the
\* tone card, with a previous answer
ToneDrillAnswered(r) ==
    LET progress_ == ResetDaily(r.progress.obj)
        answer == r.body
        is_correct == answer.correct_sequence = answer.selected_sequence
        updated == update_confusion_matrix(N_TONES, ToneDrillLoaded(progress_),
                       answer.correct_sequence, answer.selected_sequence)
    IN  [r EXCEPT
            !.pc = "tone_card",
            !.confusion_state = updated,
            !.progress.obj =
                CountReview([progress_ EXCEPT
                                !.confusion_state = confusion_state_to_dict(updated)],
                            is_correct)]

\* the same without a previous answer, to the return: the difficulty is
\* computed once for all draws
ToneDrillFirst(s, confusion_state, difficulty, row) ==
    \E draw \in ToneDrillDraws :
        Responds(s, ToneDrillLast(catalog, confusion_state, difficulty, row, draw))

\* get_next_drill once it holds the progress row
ToneDrillProcess(s, r) ==
    IF r.body # None THEN GoesOn(s, ToneDrillAnswered(r))
    ELSE ToneDrillFirst(s, ToneDrillLoaded(ResetDaily(r.progress.obj)),
             ToneDrillService_get_difficulty_level(ToneDrillLoaded(ResetDaily(r.progress.obj))),
             ResetDaily(r.progress.obj))

\* POST /tone-drill/next (legacy), to the select of the user's progress
ToneDrillNext(body) ==
    /\ Admits
    /\ Arrives(LegacyReq("get_next_drill", "progress", body))

\* select(UserProgress) ... scalar_one_or_none(): without a row the handler
\* adds one and awaits the commit; with a row it goes on
ToneDrillProgress(s) ==
    /\ At(s, "get_next_drill", "progress")
    /\ IF pure.progress = None
       THEN GoesOn(s, [pure.reqs[s] EXCEPT
                !.pc = "add_commit",
                !.progress = SessionObject(0, None,
                                 UserProgress([counts |-> ZeroMatrix(N_TONES)],
                                              Today, 0, 0, 0, 0, None))])
       ELSE ToneDrillProcess(s, [pure.reqs[s] EXCEPT
                                    !.progress = SelectProgress(pure.progress)])

\* session.add(progress); await session.commit(): user_id is unique
ToneDrillAddCommit(s) ==
    /\ At(s, "get_next_drill", "add_commit")
    /\ Commits(s, "add_refresh")

\* await session.refresh(progress), and on from there
ToneDrillAddRefresh(s) ==
    /\ At(s, "get_next_drill", "add_refresh")
    /\ ToneDrillProcess(s, session_refresh(Tables(pure), pure.reqs[s]))

\* tone_card.total += 1 ... / UserToneCard(..., card_data={}, ...)
ToneCardCounted(r, sel, sequence_key, is_correct) ==
    IF sel.j = 0
    THEN Append(sel.objects,
                SessionObject(0, None,
                    UserToneCard(sequence_key, EmptyDict,
                                 IF is_correct THEN 1 ELSE 0, 1)))
    ELSE [sel.objects EXCEPT ![sel.j].obj =
             [@ EXCEPT !.total = @ + 1,
                       !.correct = IF is_correct THEN @ + 1 ELSE @]]

\* select(UserToneCard) ... scalar_one_or_none(): the card of the answered
\* sequence is counted up, or a new card is added to the session
ToneDrillCard(s) ==
    /\ At(s, "get_next_drill", "tone_card")
    /\ LET r == pure.reqs[s]
           sequence_key == sequence_key_of(r.body.correct_sequence)
           sel == SelectOne(pure.tone_cards, r.tone_cards,
                            LAMBDA c : c.sequence_key = sequence_key)
       IN  IF sel.raised # "" THEN Responds(s, LegacyRaised(r, sel.raised))
           ELSE GoesOn(s, [r EXCEPT
                    !.pc = "commit",
                    !.tone_cards = ToneCardCounted(r, sel, sequence_key,
                        r.body.correct_sequence = r.body.selected_sequence)])

\* await session.commit(): the progress row and the tone card are written
ToneDrillCommit(s) ==
    /\ At(s, "get_next_drill", "commit")
    /\ Commits(s, "refresh")

\* the return after the refresh: the difficulty is computed once for all
\* draws
ToneDrillReturns(s, confusion_state, difficulty) ==
    \E draw \in ToneDrillDraws :
        Responds(s, ToneDrillLast(catalog, confusion_state, difficulty,
                                  pure.progress, draw))

\* await session.refresh(progress), the next drill sampled from the updated
\* confusion state, and the response
ToneDrillRefresh(s) ==
    /\ At(s, "get_next_drill", "refresh")
    /\ ToneDrillReturns(s, pure.reqs[s].confusion_state,
           ToneDrillService_get_difficulty_level(pure.reqs[s].confusion_state))

\* bodies of POST /tone-drill/next: no previous answer; tone 1 taken for
\* tone 2; tone 1 answered; a class beyond the six tones
ToneDrillBodies ==
    { None,
      [correct_sequence |-> <<1>>, selected_sequence |-> <<2>>],
      [correct_sequence |-> <<1>>, selected_sequence |-> <<1>>],
      [correct_sequence |-> <<7>>, selected_sequence |-> <<1>>] }

(***************************************************************************)
(* POST /vowel-drill/next (routers/vowel_drill.py)                         *)
(***************************************************************************)
\* vowel_confusion_state_from_dict
vowel_confusion_state_from_dict(data) ==
    IF data = None \/ data = EmptyDict \/ "counts" \notin DOMAIN data THEN None
    ELSE [ counts |-> data.counts,
           counts_by_context |-> DictGet(data, "counts_by_context", EmptyDict) ]

\* vowel_confusion_state_to_dict
vowel_confusion_state_to_dict(state) ==
    [counts |-> state.counts, counts_by_context |-> state.counts_by_context]

\* the indexes weighted_sample returns: the first, the last and one between
VowelWeightedPicks == {1, (Len(VowelPairList) + 1) \div 2, Len(VowelPairList)}

\* the random outcomes of a call of the vowel sampler, as ToneDrillDraws
VowelDrillDraws ==
    { [preview |-> pv, w |-> w, w2 |-> c[1], coin2 |-> c[2], d |-> DrawAt(1, n)] :
        pv \in BOOLEAN, w \in VowelWeightedPicks, c \in {<<2, TRUE>>, <<9, FALSE>>},
        n \in 0..(NDraws - 1) }

\* the router on the sampler's result, and the level of its second call of
\* get_difficulty_level
VowelDrillResponse(drill_data, difficulty_level) ==
    IF drill_data = None THEN [raised |-> "ValueError", drill |-> None]
    ELSE [raised |-> "",
          drill |-> [ word_id |-> drill_data.word,
                      correct_sequence |-> drill_data.correct_sequence,
                      alternatives |-> drill_data.alternatives ],
          difficulty_level |-> difficulty_level]

\* the response, or the error, with the counters of VowelDrillStats
VowelDrillStats(r, row) ==
    [ op |-> "get_next_vowel_drill", service |-> "vowel_drill", raised |-> r.raised,
      problem |-> r.drill, body |-> None,
      difficulty_level |-> IF r.raised # "" THEN None ELSE r.difficulty_level,
      stats |-> [ reviews_today |-> row.reviews_today,
                  correct_today |-> row.correct_today,
                  total_reviews |-> row.total_reviews,
                  total_correct |-> row.total_correct ] ]

\* get_next_vowel_drill from "Sample next drill" to its return: the
\* sampler is at the level of its call of get_difficulty_level, the
\* response carries the level of the handler's call
VowelDrillLast(index, confusion_state, levels, row, draw) ==
    VowelDrillStats(
        VowelDrillResponse(
            VowelDrillService_sample_next_drill_at(index, confusion_state,
                                                   levels[1], draw),
            levels[2]),
        row)

\* "Load vowel confusion state"
VowelDrillLoaded(row) ==
    LET from_dict == vowel_confusion_state_from_dict(row.vowel_confusion_state)
    IN  IF from_dict = None THEN LegacyInitialState(NUM_VOWELS) ELSE from_dict

\* get_next_vowel_drill from "Reset daily stats if new day" to the select
\* of the vowel card, with a previous answer
VowelDrillAnswered(r) ==
    LET progress_ == ResetDaily(r.progress.obj)
        answer == r.body
        is_correct == answer.correct_sequence = answer.selected_sequence
        updated == update_confusion_matrix(NUM_VOWELS, VowelDrillLoaded(progress_),
                       answer.correct_sequence, answer.selected_sequence)
    IN  [r EXCEPT
            !.pc = "vowel_card",
            !.confusion_state = updated,
            !.progress.obj =
                CountReview([progress_ EXCEPT
                                !.vowel_confusion_state =
                                    vowel_confusion_state_to_dict(updated)],
                            is_correct)]

\* the return: the levels are computed once for all draws
VowelDrillReturns(s, index, confusion_state, levels, row) ==
    \E draw \in VowelDrillDraws, sampled \in levels, returned \in levels :
        Responds(s, VowelDrillLast(index, confusion_state, <<sampled, returned>>,
                                   row, draw))

\* get_next_vowel_drill from "Reset daily stats if new day" on
VowelDrillProcess(s, r) ==
    IF r.body # None THEN GoesOn(s, VowelDrillAnswered(r))
    ELSE VowelDrillReturns(s, VowelDrillService__load_words(catalog),
             VowelDrillLoaded(ResetDaily(r.progress.obj)),
             VowelDifficultyLevels(VowelDrillLoaded(ResetDaily(r.progress.obj))),
             ResetDaily(r.progress.obj))

\* "Initialize vowel_confusion_state if it doesn't exist": the assignment
\* and the await of its commit, or on from there
VowelDrillInitialize(s, r) ==
    IF r.progress.obj.vowel_confusion_state \in {None, EmptyDict}
    THEN GoesOn(s, [r EXCEPT
             !.pc = "init_commit",
             !.progress.obj.vowel_confusion_state =
                 [counts |-> ZeroMatrix(NUM_VOWELS)]])
    ELSE VowelDrillProcess(s, r)

\* POST /vowel-drill/next, to the select of the user's progress
get_next_vowel_drill(body) ==
    /\ Admits
    /\ Arrives(LegacyReq("get_next_vowel_drill", "progress", body))

\* select(UserProgress) ... scalar_one_or_none(): without a row the handler
\* adds one and awaits the commit; with a row it goes on
VowelDrillProgress(s) ==
    /\ At(s, "get_next_vowel_drill", "progress")
    /\ IF pure.progress = None
       THEN GoesOn(s, [pure.reqs[s] EXCEPT
                !.pc = "add_commit",
                !.progress = SessionObject(0, None,
                                 UserProgress([counts |-> ZeroMatrix(N_TONES)],
                                              Today, 0, 0, 0, 0,
                                              [counts |-> ZeroMatrix(NUM_VOWELS)]))])
       ELSE VowelDrillInitialize(s, [pure.reqs[s] EXCEPT
                                       !.progress = SelectProgress(pure.progress)])

\* session.add(progress); await session.commit(): user_id is unique
VowelDrillAddCommit(s) ==
    /\ At(s, "get_next_vowel_drill", "add_commit")
    /\ Commits(s, "add_refresh")

\* await session.refresh(progress), and on from there
VowelDrillAddRefresh(s) ==
    /\ At(s, "get_next_vowel_drill", "add_refresh")
    /\ VowelDrillInitialize(s, session_refresh(Tables(pure), pure.reqs[s]))

\* await session.commit() of the initialized vowel_confusion_state
VowelDrillInitCommit(s) ==
    /\ At(s, "get_next_vowel_drill", "init_commit")
    /\ Commits(s, "init_refresh")

\* await session.refresh(progress), and on from there
VowelDrillInitRefresh(s) ==
    /\ At(s, "get_next_vowel_drill", "init_refresh")
    /\ VowelDrillProcess(s, session_refresh(Tables(pure), pure.reqs[s]))

\* vowel_card.total += 1 ... / UserVowelCard(..., card_data={}, ...)
VowelCardCounted(sel, sequence_key, is_correct) ==
    IF sel.j = 0
    THEN Append(sel.objects,
                SessionObject(0, None,
                    UserVowelCard(sequence_key, EmptyDict,
                                  IF is_correct THEN 1 ELSE 0, 1)))
    ELSE [sel.objects EXCEPT ![sel.j].obj =
             [@ EXCEPT !.total = @ + 1,
                       !.correct = IF is_correct THEN @ + 1 ELSE @]]

\* select(UserVowelCard) ... scalar_one_or_none(): the card of the answered
\* sequence is counted up, or a new card is added to the session
VowelDrillCard(s) ==
    /\ At(s, "get_next_vowel_drill", "vowel_card")
    /\ LET r == pure.reqs[s]
           sequence_key == sequence_key_of(r.body.correct_sequence)
           sel == SelectOne(pure.vowel_cards, r.vowel_cards,
                            LAMBDA c : c.sequence_key = sequence_key)
       IN  IF sel.raised # "" THEN Responds(s, LegacyRaised(r, sel.raised))
           ELSE GoesOn(s, [r EXCEPT
                    !.pc = "commit",
                    !.vowel_cards = VowelCardCounted(sel, sequence_key,
                        r.body.correct_sequence = r.body.selected_sequence)])

\* await session.commit(): the progress row and the vowel card are written
VowelDrillCommit(s) ==
    /\ At(s, "get_next_vowel_drill", "commit")
    /\ Commits(s, "refresh")

\* await session.refresh(progress), the next drill sampled from the updated
\* confusion state, and the response
VowelDrillRefresh(s) ==
    /\ At(s, "get_next_vowel_drill", "refresh")
    /\ VowelDrillReturns(s, VowelDrillService__load_words(catalog),
           pure.reqs[s].confusion_state,
           VowelDifficultyLevels(pure.reqs[s].confusion_state), pure.progress)

\* bodies of POST /vowel-drill/next: no previous answer; vowel 1 taken for
\* vowel 2; a class beyond the twelve vowels
VowelDrillBodies ==
    { None,
      [correct_sequence |-> <<1>>, selected_sequence |-> <<2>>],
      [correct_sequence |-> <<13>>, selected_sequence |-> <<1>>] }

(***************************************************************************)
(* POST /sync/record-review (routers/sync.py)                              *)
(***************************************************************************)
\* the counters a handler of routers/sync.py returns
ProgressDict(row) ==
    [ reviews_today |-> row.reviews_today, correct_today |-> row.correct_today,
      last_review_date |-> row.last_review_date,
      total_reviews |-> row.total_reviews, total_correct |-> row.total_correct ]

\* UserProgress(user_id=..., last_review_date=today): the column defaults
NewProgress == UserProgress(None, Today, 0, 0, 0, 0, None)

record_review(correct) ==
    /\ Admits
    /\ Arrives(LegacyReq("record_review", "progress", [correct |-> correct]))

\* select(UserProgress) ... scalar_one_or_none(), a row added when there is
\* none, the reset and the counts
RecordReviewProgress(s) ==
    /\ At(s, "record_review", "progress")
    /\ LET r == pure.reqs[s]
           progress_ == IF pure.progress = None THEN SessionObject(0, None, NewProgress)
                        ELSE SelectProgress(pure.progress)
       IN  GoesOn(s, [r EXCEPT
              !.pc = "commit",
              !.progress = [progress_ EXCEPT
                  !.obj = CountReview(ResetDaily(@), r.body.correct)]])

\* await session.commit()
RecordReviewCommit(s) ==
    /\ At(s, "record_review", "commit")
    /\ Commits(s, "refresh")

\* await session.refresh(progress) and the return
RecordReviewRefresh(s) ==
    /\ At(s, "record_review", "refresh")
    /\ Responds(s, SyncReturned(pure.reqs[s], ProgressDict(pure.progress)))

(***************************************************************************)
(* PUT /sync/tone-card/{sequence_key}, PUT /sync/word-card/{word_id}       *)
(***************************************************************************)
\* existing.card_data = ... / UserToneCard(...) of a ToneCardSync
ToneCardSynced(sel, sequence_key, card_sync) ==
    IF sel.j = 0
    THEN Append(sel.objects,
                SessionObject(0, None,
                    UserToneCard(sequence_key, card_sync.card,
                                 card_sync.correct, card_sync.total)))
    ELSE [sel.objects EXCEPT ![sel.j].obj =
             [@ EXCEPT !.card_data = card_sync.card,
                       !.correct = card_sync.correct,
                       !.total = card_sync.total]]

\* existing.card_data = ... / UserWordCard(...) of a WordCardSync
WordCardSynced(sel, word_id, card_sync) ==
    IF sel.j = 0
    THEN Append(sel.objects,
                SessionObject(0, None, UserWordCard(word_id, card_sync.card)))
    ELSE [sel.objects EXCEPT ![sel.j].obj = [@ EXCEPT !.card_data = card_sync.card]]

update_tone_card(sequence_key, card_sync) ==
    /\ Admits
    /\ Arrives(LegacyReq("update_tone_card", "select",
                      [sequence_key |-> sequence_key, card_sync |-> card_sync]))

\* select(UserToneCard) ... scalar_one_or_none() and the assignments
UpdateToneCardSelect(s) ==
    /\ At(s, "update_tone_card", "select")
    /\ LET r == pure.reqs[s]
           sel == SelectOne(pure.tone_cards, r.tone_cards,
                            LAMBDA c : c.sequence_key = r.body.sequence_key)
       IN  IF sel.raised # "" THEN Responds(s, LegacyRaised(r, sel.raised))
           ELSE GoesOn(s, [r EXCEPT
                    !.pc = "commit",
                    !.tone_cards = ToneCardSynced(sel, r.body.sequence_key,
                                                  r.body.card_sync)])

\* await session.commit() and the return
UpdateToneCardCommit(s) ==
    /\ At(s, "update_tone_card", "commit")
    /\ CommitsAndReturns(s, [status |-> "ok",
                             sequence_key |-> pure.reqs[s].body.sequence_key])

update_word_card(word_id, card_sync) ==
    /\ Admits
    /\ Arrives(LegacyReq("update_word_card", "select",
                      [word_id |-> word_id, card_sync |-> card_sync]))

\* select(UserWordCard) ... scalar_one_or_none() and the assignments
UpdateWordCardSelect(s) ==
    /\ At(s, "update_word_card", "select")
    /\ LET r == pure.reqs[s]
           sel == SelectOne(pure.word_cards, r.word_cards,
                            LAMBDA c : c.word_id = r.body.word_id)
       IN  IF sel.raised # "" THEN Responds(s, LegacyRaised(r, sel.raised))
           ELSE GoesOn(s, [r EXCEPT
                    !.pc = "commit",
                    !.word_cards = WordCardSynced(sel, r.body.word_id,
                                                  r.body.card_sync)])

\* await session.commit() and the return
UpdateWordCardCommit(s) ==
    /\ At(s, "update_word_card", "commit")
    /\ CommitsAndReturns(s, [status |-> "ok", word_id |-> pure.reqs[s].body.word_id])

(***************************************************************************)
(* GET /sync (routers/sync.py)                                             *)
(***************************************************************************)
\* SyncResponse(...) of the objects the session holds
SyncResponse(r) ==
    [ word_cards |-> [j \in DOMAIN r.word_cards |->
                         [ word_id |-> r.word_cards[j].obj.word_id,
                           card |-> r.word_cards[j].obj.card_data ]],
      tone_cards |-> [j \in DOMAIN r.tone_cards |->
                         [ sequence_key |-> r.tone_cards[j].obj.sequence_key,
                           card |-> r.tone_cards[j].obj.card_data,
                           correct |-> r.tone_cards[j].obj.correct,
                           total |-> r.tone_cards[j].obj.total ]],
      progress |-> ProgressDict(r.progress.obj),
      confusion_state |-> r.progress.obj.confusion_state ]

get_sync_data ==
    /\ Admits
    /\ Arrives(LegacyReq("get_sync_data", "word_cards", None))

\* select(UserWordCard) ... scalars().all()
GetSyncDataWordCards(s) ==
    /\ At(s, "get_sync_data", "word_cards")
    /\ GoesOn(s, [pure.reqs[s] EXCEPT !.pc = "tone_cards",
                                      !.word_cards = LoadAll(pure.word_cards)])

\* select(UserToneCard) ... scalars().all()
GetSyncDataToneCards(s) ==
    /\ At(s, "get_sync_data", "tone_cards")
    /\ GoesOn(s, [pure.reqs[s] EXCEPT !.pc = "progress",
                                      !.tone_cards = LoadAll(pure.tone_cards)])

\* get_sync_data from "Reset daily stats if new day": the commit of the
\* reset, or the return
GetSyncDataReset(s, r) ==
    IF r.progress.obj.last_review_date # Today
    THEN GoesOn(s, [r EXCEPT !.pc = "reset_commit",
                             !.progress.obj = ResetDaily(@)])
    ELSE Responds(s, SyncReturned(r, SyncResponse(r)))

\* select(UserProgress) ... scalar_one_or_none(): without a row the handler
\* adds one and awaits the commit
GetSyncDataProgress(s) ==
    /\ At(s, "get_sync_data", "progress")
    /\ IF pure.progress = None
       THEN GoesOn(s, [pure.reqs[s] EXCEPT
                !.pc = "add_commit",
                !.progress = SessionObject(0, None, NewProgress)])
       ELSE GetSyncDataReset(s, [pure.reqs[s] EXCEPT
                                    !.progress = SelectProgress(pure.progress)])

\* session.add(progress); await session.commit()
GetSyncDataAddCommit(s) ==
    /\ At(s, "get_sync_data", "add_commit")
    /\ Commits(s, "add_refresh")

\* await session.refresh(progress), and on from there
GetSyncDataAddRefresh(s) ==
    /\ At(s, "get_sync_data", "add_refresh")
    /\ GetSyncDataReset(s, session_refresh(Tables(pure), pure.reqs[s]))

\* await session.commit() of the reset
GetSyncDataResetCommit(s) ==
    /\ At(s, "get_sync_data", "reset_commit")
    /\ Commits(s, "reset_refresh")

\* await session.refresh(progress) and the return
GetSyncDataResetRefresh(s) ==
    /\ At(s, "get_sync_data", "reset_refresh")
    /\ LET r == session_refresh(Tables(pure), pure.reqs[s])
       IN  Responds(s, SyncReturned(r, SyncResponse(r)))

(***************************************************************************)
(* PUT /sync (routers/sync.py)                                             *)
(***************************************************************************)
\* "if sync_data.progress:"
HasProgress(sync_data) == sync_data.progress # None /\ sync_data.progress # EmptyDict

\* where update_sync_data awaits next, from the i-th word card on
SyncFromWordCard(r, i) ==
    IF i <= Len(r.body.word_cards) THEN [r EXCEPT !.pc = "word_card", !.i = i]
    ELSE IF 1 <= Len(r.body.tone_cards) THEN [r EXCEPT !.pc = "tone_card", !.i = 1]
    ELSE IF HasProgress(r.body) THEN [r EXCEPT !.pc = "progress"]
    ELSE [r EXCEPT !.pc = "commit"]

\* the same from the i-th tone card on
SyncFromToneCard(r, i) ==
    IF i <= Len(r.body.tone_cards) THEN [r EXCEPT !.pc = "tone_card", !.i = i]
    ELSE IF HasProgress(r.body) THEN [r EXCEPT !.pc = "progress"]
    ELSE [r EXCEPT !.pc = "commit"]

update_sync_data(sync_data) ==
    /\ Admits
    /\ Arrives(SyncFromWordCard(LegacyReq("update_sync_data", "word_card", sync_data), 1))

\* "Update word cards": the select of an iteration and its assignments
UpdateSyncDataWordCard(s) ==
    /\ At(s, "update_sync_data", "word_card")
    /\ LET r == pure.reqs[s]
           wc_sync == r.body.word_cards[r.i]
           sel == SelectOne(pure.word_cards, r.word_cards,
                            LAMBDA c : c.word_id = wc_sync.word_id)
       IN  IF sel.raised # "" THEN Responds(s, LegacyRaised(r, sel.raised))
           ELSE GoesOn(s, SyncFromWordCard(
                    [r EXCEPT !.word_cards =
                        WordCardSynced(sel, wc_sync.word_id, wc_sync)],
                    r.i + 1))

\* "Update tone cards": the select of an iteration and its assignments
UpdateSyncDataToneCard(s) ==
    /\ At(s, "update_sync_data", "tone_card")
    /\ LET r == pure.reqs[s]
           tc_sync == r.body.tone_cards[r.i]
           sel == SelectOne(pure.tone_cards, r.tone_cards,
                            LAMBDA c : c.sequence_key = tc_sync.sequence_key)
       IN  IF sel.raised # "" THEN Responds(s, LegacyRaised(r, sel.raised))
           ELSE GoesOn(s, SyncFromToneCard(
                    [r EXCEPT !.tone_cards =
                        ToneCardSynced(sel, tc_sync.sequence_key, tc_sync)],
                    r.i + 1))

\* the columns "Update progress" assigns
SyncedProgress(row, sync_data) ==
    [row EXCEPT
        !.reviews_today = DictGet(sync_data.progress, "reviews_today", 0),
        !.correct_today = DictGet(sync_data.progress, "correct_today", 0),
        !.last_review_date = DictGet(sync_data.progress, "last_review_date", Today),
        !.total_reviews = DictGet(sync_data.progress, "total_reviews", 0),
        !.total_correct = DictGet(sync_data.progress, "total_correct", 0)]

\* "Update progress": the select and the assignments, or the row added
UpdateSyncDataProgress(s) ==
    /\ At(s, "update_sync_data", "progress")
    /\ LET r == pure.reqs[s]
       IN  IF pure.progress # None
           THEN GoesOn(s, [r EXCEPT
                    !.pc = "commit",
                    !.progress =
                        [SelectProgress(pure.progress) EXCEPT !.obj =
                            [SyncedProgress(@, r.body) EXCEPT !.confusion_state =
                                IF r.body.confusion_state # None
                                THEN r.body.confusion_state ELSE @]]])
           ELSE GoesOn(s, [r EXCEPT
                    !.pc = "commit",
                    !.progress = SessionObject(0, None,
                        [SyncedProgress(NewProgress, r.body) EXCEPT
                            !.confusion_state = r.body.confusion_state])])

\* await session.commit() and the return
UpdateSyncDataCommit(s) ==
    /\ At(s, "update_sync_data", "commit")
    /\ CommitsAndReturns(s, [status |-> "ok"])

\* the card dict of a request
SyncedCard == [due |-> 7]

\* sequence_key and ToneCardSync of PUT /sync/tone-card: a key the drill
\* writes, and a key it never writes
ToneCardSyncs ==
    { << Chars("1"), [sequence_key |-> Chars("1"), card |-> SyncedCard,
                      correct |-> 9, total |-> 9] >>,
      << Chars("x"), [sequence_key |-> Chars("1"), card |-> EmptyDict,
                      correct |-> 0, total |-> 0] >> }

\* word_id and WordCardSync of PUT /sync/word-card
WordCardSyncs == { << 11, [word_id |-> 12, card |-> SyncedCard] >> }

\* bodies of PUT /sync: nothing; a tone card twice with the counters and a
\* matrix; a word card with a partial progress dict; a tone card with an
\* empty progress dict
SyncRequests ==
    { [ word_cards |-> <<>>, tone_cards |-> <<>>, progress |-> None,
        confusion_state |-> None ],
      [ word_cards |-> <<>>,
        tone_cards |-> << [sequence_key |-> Chars("1"), card |-> EmptyDict,
                           correct |-> 1, total |-> 2],
                          [sequence_key |-> Chars("1"), card |-> SyncedCard,
                           correct |-> 2, total |-> 3] >>,
        progress |-> [ reviews_today |-> 7, correct_today |-> 6,
                       last_review_date |-> Yesterday,
                       total_reviews |-> 9, total_correct |-> 8 ],
        confusion_state |-> [counts |-> ZeroMatrix(N_TONES)] ],
      [ word_cards |-> << [word_id |-> 11, card |-> SyncedCard] >>,
        tone_cards |-> <<>>,
        progress |-> [reviews_today |-> 1],
        confusion_state |-> None ],
      [ word_cards |-> <<>>,
        tone_cards |-> << [sequence_key |-> Chars("2"), card |-> SyncedCard,
                           correct |-> 0, total |-> 1] >>,
        progress |-> EmptyDict,
        confusion_state |-> [counts |-> ZeroMatrix(N_TONES)] ] }

NextSampler ==
    \/ \E pa \in SamplerAnswered, draw \in SamplerDraws : NextDrill(pa[1], pa[2], draw)
    \/ \E body \in ToneDrillBodies : ToneDrillNext(body)
    \/ \E s \in LegacySlots : ToneDrillProgress(s)
    \/ \E s \in LegacySlots : ToneDrillAddCommit(s)
    \/ \E s \in LegacySlots : ToneDrillAddRefresh(s)
    \/ \E s \in LegacySlots : ToneDrillCard(s)
    \/ \E s \in LegacySlots : ToneDrillCommit(s)
    \/ \E s \in LegacySlots : ToneDrillRefresh(s)
    \/ \E body \in VowelDrillBodies : get_next_vowel_drill(body)
    \/ \E s \in LegacySlots : VowelDrillProgress(s)
    \/ \E s \in LegacySlots : VowelDrillAddCommit(s)
    \/ \E s \in LegacySlots : VowelDrillAddRefresh(s)
    \/ \E s \in LegacySlots : VowelDrillInitCommit(s)
    \/ \E s \in LegacySlots : VowelDrillInitRefresh(s)
    \/ \E s \in LegacySlots : VowelDrillCard(s)
    \/ \E s \in LegacySlots : VowelDrillCommit(s)
    \/ \E s \in LegacySlots : VowelDrillRefresh(s)
    \/ \E correct \in BOOLEAN : record_review(correct)
    \/ \E s \in LegacySlots : RecordReviewProgress(s)
    \/ \E s \in LegacySlots : RecordReviewCommit(s)
    \/ \E s \in LegacySlots : RecordReviewRefresh(s)
    \/ \E c \in ToneCardSyncs : update_tone_card(c[1], c[2])
    \/ \E s \in LegacySlots : UpdateToneCardSelect(s)
    \/ \E s \in LegacySlots : UpdateToneCardCommit(s)
    \/ \E c \in WordCardSyncs : update_word_card(c[1], c[2])
    \/ \E s \in LegacySlots : UpdateWordCardSelect(s)
    \/ \E s \in LegacySlots : UpdateWordCardCommit(s)
    \/ get_sync_data
    \/ \E s \in LegacySlots : GetSyncDataWordCards(s)
    \/ \E s \in LegacySlots : GetSyncDataToneCards(s)
    \/ \E s \in LegacySlots : GetSyncDataProgress(s)
    \/ \E s \in LegacySlots : GetSyncDataAddCommit(s)
    \/ \E s \in LegacySlots : GetSyncDataAddRefresh(s)
    \/ \E s \in LegacySlots : GetSyncDataResetCommit(s)
    \/ \E s \in LegacySlots : GetSyncDataResetRefresh(s)
    \/ \E sync_data \in SyncRequests : update_sync_data(sync_data)
    \/ \E s \in LegacySlots : UpdateSyncDataWordCard(s)
    \/ \E s \in LegacySlots : UpdateSyncDataToneCard(s)
    \/ \E s \in LegacySlots : UpdateSyncDataProgress(s)
    \/ \E s \in LegacySlots : UpdateSyncDataCommit(s)

SpecSampler == InitSampler /\ [][NextSampler]_vars

\* C15: whatever the posterior map, the word index and the draws,
\* process_answer_and_get_next returns a drill without raising, and the drill
\* has at least two alternatives, the correct sequence among them
C15_NextDrillAlwaysReturned ==
    (pure.last # None /\ pure.last.service = "drill") =>
        /\ pure.last.raised = ""
        /\ pure.last.problem # None
        /\ Len(pure.last.problem.alternatives) >= 2
        /\ pure.last.problem.correct_sequence \in Range(pure.last.problem.alternatives)

\* C16: in every drill the sampler produces, every alternative has the
\* length of the correct sequence and no two alternatives are equal, the
\* deterministic fill after failed random attempts included
C16_AlternativesDistinctSameLength ==
    (pure.last # None /\ pure.last.service = "drill" /\ pure.last.problem # None) =>
        LET alts == pure.last.problem.alternatives
        IN  /\ \A i \in DOMAIN alts :
                  Len(alts[i]) = Len(pure.last.problem.correct_sequence)
            /\ \A i, j \in DOMAIN alts : i # j => alts[i] # alts[j]

\* C17: with an empty word index the drill service returns the canonical
\* fallback (word 0, correct [1], alternatives [[1], [2]]) whatever the tier
\* and the preview draw, and the legacy next-drill operation returns a drill
C17_EmptyCatalogFallback ==
    (pure.last # None /\ catalog = <<>>) =>
        IF pure.last.service = "drill"
        THEN /\ pure.last.raised = ""
             /\ pure.last.problem.word_id = 0
             /\ pure.last.problem.correct_sequence = <<1>>
             /\ pure.last.problem.alternatives = << <<1>>, <<2>> >>
        ELSE pure.last.service = "tone_drill" =>
                 (pure.last.raised = "" /\ pure.last.problem # None)


--------------------------------------------------------------------------
(***************************************************************************)
(* The problem type registry: lookups and registrations in any order     *)
(***************************************************************************)
\* calls per run
MaxRegistryCalls == 3

\* the ids looked up: registered, well formed, and malformed in each way
RegistryIds ==
    { TONE \o <<"_", "1">>, VOWEL \o <<"_", "2">>,
      TONE \o <<"_", "3">>, VOWEL \o <<"_", "1", "0">>, TONE \o <<"_", "0", "7">>,
      TONE \o <<"_", "0">>, TONE \o <<"_", "sup2">>,
      TONE \o <<"_", "arabic3">>, VOWEL \o <<"_", "fw1">>,
      TONE \o <<"_", "1", "arabic3">>,
      <<"n", "o", "u", "n", "_", "1">>, TONE \o <<"_", "1", "_", "2">>,
      TONE, TONE \o <<"_">>, TONE \o <<"_", "x">>, TONE \o <<"_", "-", "1">>,
      <<"_", "1">>, <<>> }

\* the descriptors a caller registers: a new type, and other settings for
\* a startup type and for a type a lookup synthesizes
RegistryConfigs ==
    { ProblemTypeConfig(make_problem_type_id("tone", 4), "tone", 4, 6, 2),
      ProblemTypeConfig(tone_1, "tone", 1, 6, 2),
      ProblemTypeConfig(tone_1, "tone", 1, 8, 1),
      ProblemTypeConfig(make_problem_type_id("tone", 3), "tone", 3, 6, 9) }

\* pure.first keeps, for every id, the descriptor first registered for it
InitRegistry ==
    /\ sessions = [sid \in SessionIds |-> None]
    /\ attempts = <<>>
    /\ catalog = CatalogFull
    /\ hist = [sid \in SessionIds |-> NoHist]
    /\ resp = None
    /\ user_state = <<>>
    /\ proc = None
    /\ pure = [ registry |-> PROBLEM_TYPES,
                first |-> [k \in Range(RegistryKeys(PROBLEM_TYPES)) |->
                              RegistryGet(PROBLEM_TYPES, k)],
                calls |-> 0, last |-> None ]

FirstRegistered(first, registry) ==
    [k \in (DOMAIN first) \cup Range(RegistryKeys(registry)) |->
        IF k \in DOMAIN first THEN first[k] ELSE RegistryGet(registry, k)]

GetProblemType(problem_type_id) ==
    /\ pure.calls < MaxRegistryCalls
    /\ LET r == get_problem_type(pure.registry, problem_type_id)
       IN  pure' = [ registry |-> r.registry,
                     first |-> FirstRegistered(pure.first, r.registry),
                     calls |-> pure.calls + 1,
                     last |-> [ op |-> "get", id |-> problem_type_id,
                                before |-> pure.registry,
                                raised |-> r.raised, config |-> r.config ] ]
    /\ UNCHANGED <<sessions, attempts, catalog, hist, resp, user_state, proc>>

RegisterProblemType(config) ==
    /\ pure.calls < MaxRegistryCalls
    /\ LET r == register_problem_type(pure.registry, config)
       IN  pure' = [ registry |-> r,
                     first |-> FirstRegistered(pure.first, r),
                     calls |-> pure.calls + 1,
                     last |-> [ op |-> "register", id |-> config.problem_type_id,
                                before |-> pure.registry,
                                raised |-> "", config |-> config ] ]
    /\ UNCHANGED <<sessions, attempts, catalog, hist, resp, user_state, proc>>

\* get_problem_types_for_drill(drill_type): a read of the registry
GetProblemTypesForDrill(drill_type) ==
    /\ pure.calls < MaxRegistryCalls
    /\ pure' = [pure EXCEPT
          !.calls = @ + 1,
          !.last = [ op |-> "types", id |-> <<>>, before |-> pure.registry,
                     raised |-> "", config |-> None,
                     types |-> get_problem_types_for_drill(pure.registry, drill_type) ]]
    /\ UNCHANGED <<sessions, attempts, catalog, hist, resp, user_state, proc>>

NextRegistry ==
    \/ \E id \in RegistryIds : GetProblemType(id)
    \/ \E config \in RegistryConfigs : RegisterProblemType(config)
    \/ \E drill_type \in {"tone", "vowel"} : GetProblemTypesForDrill(drill_type)

SpecRegistry == InitRegistry /\ [][NextRegistry]_vars

\* an id of the form <tone|vowel>_<positive integer>
WellFormedId(problem_type_id) ==
    LET parts == PySplit(problem_type_id, "_", <<>>)
    IN  /\ Len(parts) = 2
        /\ parts[1] \in {TONE, VOWEL}
        /\ parts[2] # <<>>
        /\ \A i \in DOMAIN parts[2] : parts[2][i] \in Range(AsciiDigits)
        /\ PyInt(parts[2], 0) >= 1

\* C19: a lookup of an unregistered id registers and returns the family
\* defaults exactly when the id is <tone|vowel>_<positive integer>, and the
\* registry then holds that descriptor; for any other id it fails with the
\* unknown-problem-type error (a KeyError) and the registry is unchanged
C19_SynthesizeWellFormedOnly ==
    (/\ pure.last # None /\ pure.last.op = "get"
     /\ pure.last.id \notin Range(RegistryKeys(pure.last.before))) =>
        IF WellFormedId(pure.last.id)
        THEN /\ pure.last.raised = ""
             /\ pure.last.config.problem_type_id = pure.last.id
             /\ pure.last.config.n_classes =
                    (IF PySplit(pure.last.id, "_", <<>>)[1] = TONE THEN 6 ELSE 12)
             /\ pure.last.config.pseudocount =
                    (IF PySplit(pure.last.id, "_", <<>>)[1] = TONE THEN 2 ELSE 5)
             /\ pure.registry = Append(pure.last.before, pure.last.config)
        ELSE /\ pure.last.raised = "KeyError"
             /\ pure.registry = pure.last.before

\* C20: whatever register_problem_type and get_problem_type calls were
\* made, the descriptor held for an id is the one first registered for it
C20_DescriptorsImmutable ==
    \A id \in DOMAIN pure.first :
        /\ id \in Range(RegistryKeys(pure.registry))
        /\ RegistryGet(pure.registry, id) = pure.first[id]


--------------------------------------------------------------------------
(***************************************************************************)
(* The Beta parameters of get_all_pair_stats.  The code computes them in   *)
(* doubles; here they are exact fractions <<numerator, denominator>> with  *)
(* a positive denominator, reduced after every operation.                  *)
(***************************************************************************)
\* p + q, p - q, p * q and p / q over the least common denominator
FracPlus(p, q) ==
    LET g == Gcd(p[2], q[2])
    IN  FracNorm(<<p[1] * (q[2] \div g) + q[1] * (p[2] \div g), (p[2] \div g) * q[2]>>)
FracMinus(p, q) == FracPlus(p, <<0 - q[1], q[2]>>)
FracAbs(p) == IF p[1] < 0 THEN <<0 - p[1], p[2]>> ELSE p
FracTimes(p, q) ==
    LET g1 == Gcd(FracAbs(p)[1], q[2])
        g2 == Gcd(FracAbs(q)[1], p[2])
        h1 == IF g1 = 0 THEN 1 ELSE g1
        h2 == IF g2 = 0 THEN 1 ELSE g2
    IN  FracNorm(<<(p[1] \div h1) * (q[1] \div h2), (p[2] \div h2) * (q[2] \div h1)>>)
\* q > 0
FracOver(p, q) == FracTimes(p, <<q[2], q[1]>>)
FracHalf == <<1, 2>>

\* BetaParams(alpha=p_correct * effective_n, beta=(1 - p_correct) * effective_n)
BetaAlpha(b) == FracTimes(b.p_correct, <<b.effective_n, 1>>)
BetaBeta(b) == FracTimes(FracOneMinus(b.p_correct), <<b.effective_n, 1>>)

\* the moments of beta_mixture_approx(alpha1, beta1, alpha2, beta2, w1=0.5)
BetaVariance(alpha, beta) ==
    LET n == FracPlus(alpha, beta)
    IN  FracOver(FracTimes(alpha, beta),
                 FracTimes(FracTimes(n, n), FracPlus(n, <<1, 1>>)))

\* "nu = mu_mix * (1 - mu_mix) / var_mix - 1" divides by a var_mix of 0;
\* "if nu <= 0: return (1.0, 1.0)"
MixtureFit(mu_mix, nu) ==
    IF nu[1] <= 0
    THEN [raised |-> "", alpha |-> <<1, 1>>, beta |-> <<1, 1>>]
    ELSE [raised |-> "", alpha |-> FracTimes(mu_mix, nu),
          beta |-> FracTimes(FracOneMinus(mu_mix), nu)]
MixtureParams(mu_mix, var_mix) ==
    IF var_mix[1] = 0 THEN [raised |-> "ZeroDivisionError"]
    ELSE MixtureFit(mu_mix,
                    FracMinus(FracOver(FracTimes(mu_mix, FracOneMinus(mu_mix)), var_mix),
                              <<1, 1>>))
MixtureMoments(mu1, mu2, var1, var2) ==
    MixtureParams(
        FracPlus(FracTimes(FracHalf, mu1), FracTimes(FracHalf, mu2)),
        FracPlus(FracPlus(FracTimes(FracHalf, var1), FracTimes(FracHalf, var2)),
                 FracTimes(FracTimes(FracHalf, FracHalf),
                           FracTimes(FracMinus(mu1, mu2), FracMinus(mu1, mu2)))))

\* a / (a + b) and (a * b) / (n**2 * (n + 1)) divide by zero
BetaDegenerate(alpha, beta) ==
    \/ FracPlus(alpha, beta)[1] = 0
    \/ FracPlus(FracPlus(alpha, beta), <<1, 1>>)[1] = 0

\* beta_mixture_approx: the Beta matched to the mixture's mean and
\* variance, or the ZeroDivisionError of one of its quotients
beta_mixture_approx(alpha1, beta1, alpha2, beta2) ==
    IF BetaDegenerate(alpha1, beta1) \/ BetaDegenerate(alpha2, beta2)
    THEN [raised |-> "ZeroDivisionError"]
    ELSE MixtureMoments(FracOver(alpha1, FracPlus(alpha1, beta1)),
                        FracOver(alpha2, FracPlus(alpha2, beta2)),
                        BetaVariance(alpha1, beta1), BetaVariance(alpha2, beta2))

MixtureOf(beta_ij, beta_ji) ==
    beta_mixture_approx(BetaAlpha(beta_ij), BetaBeta(beta_ij),
                        BetaAlpha(beta_ji), BetaBeta(beta_ji))

\* batch_success_distribution over both directions of every pair
BatchBetas(self, problem_type_id, pairs, state) ==
    [ k \in 1..(2 * Len(pairs)) |->
        LuceMLService_get_success_distribution(self,
            IF k % 2 = 1
            THEN PairProblem(problem_type_id, pairs[(k + 1) \div 2][1],
                             pairs[(k + 1) \div 2][2])
            ELSE PairProblem(problem_type_id, pairs[(k + 1) \div 2][2],
                             pairs[(k + 1) \div 2][1]),
            state) ]

\* result[(i + 1, j + 1)] = BetaParams(alpha=mix_alpha, beta=mix_beta), or
\* the first error of a mixture
PairParamsMixed(pairs, mixes) ==
    IF FirstRaised(mixes) # "" THEN [raised |-> FirstRaised(mixes), stats |-> <<>>]
    ELSE [raised |-> "",
          stats |-> [pr \in Range(pairs) |->
                        mixes[CHOOSE k \in 1..Len(pairs) : pairs[k] = pr]]]

\* the loop over the pairs after the batch, or the first error of the batch
PairParamsFrom(pairs, betas) ==
    IF FirstRaised(betas) # "" THEN [raised |-> FirstRaised(betas), stats |-> <<>>]
    ELSE PairParamsMixed(pairs,
             [k \in 1..Len(pairs) |-> MixtureOf(betas[2 * k - 1], betas[2 * k])])

PairParamsOf(self, problem_type_id, pairs, state) ==
    PairParamsFrom(pairs, BatchBetas(self, problem_type_id, pairs, state))

\* LuceMLService.get_all_pair_stats with the parameters of every entry:
\* config = get_problem_type(...) comes first; the error raised, or
\* result[(i + 1, j + 1)] for i < j
LuceMLService_get_all_pair_params(self, registry, problem_type_id, state) ==
    IF get_problem_type(registry, problem_type_id).raised # ""
    THEN [raised |-> get_problem_type(registry, problem_type_id).raised, stats |-> <<>>]
    ELSE PairParamsOf(self, problem_type_id,
             PairListOf(get_problem_type(registry, problem_type_id).config.n_classes),
             state)

(***************************************************************************)
(* A learner who selects class 1 whatever is played, class 1 or class 2:   *)
(* the posterior after any number of such answers, and its pair            *)
(* statistics.                                                             *)
(***************************************************************************)
\* largest number of answers in one cell of the matrix
MaxCell == 20

\* the (played, selected) cells the learner's answers fall in
PairCells == { <<1, 1>>, <<2, 1>> }

InitPairStats ==
    /\ sessions = [sid \in SessionIds |-> None]
    /\ attempts = <<>>
    /\ catalog = CatalogFull
    /\ hist = [sid \in SessionIds |-> NoHist]
    /\ resp = None
    /\ user_state = <<>>
    /\ proc = None
    /\ pure = [ ml |-> LuceMLService(1),
                state |-> InitialValue(LuceMLService(1), tone_1),
                last |-> None ]

PairUpdated(r) ==
    pure' = [pure EXCEPT !.state = StateValue(r.heap, r.state), !.last = None]

\* state, _ = ml.update_state(state, problem, answer)
PairAnswer(played, selected) ==
    /\ pure.state.counts[played][selected] < MaxCell
    /\ LET o == Objects(DictSet(EmptyDict, tone_1, pure.state))
       IN  PairUpdated(ml_update_state(pure.ml, o.heap, o.objs[tone_1],
                           Problem(tone_1, 0, <<played>>, <<>>),
                           Answer(<<selected>>, 0)))
    /\ UNCHANGED <<sessions, attempts, catalog, hist, resp, user_state, proc>>

\* ml.get_all_pair_stats(tone_1, state)
AllPairStats ==
    /\ pure.last = None
    /\ pure' = [pure EXCEPT !.last =
          [op |-> "pair_stats"]
          @@ LuceMLService_get_all_pair_params(pure.ml, PROBLEM_TYPES, tone_1,
                                               pure.state)]
    /\ UNCHANGED <<sessions, attempts, catalog, hist, resp, user_state, proc>>

NextPairStats ==
    \/ \E cell \in PairCells : PairAnswer(cell[1], cell[2])
    \/ AllPairStats

SpecPairStats == InitPairStats /\ [][NextPairStats]_vars

\* a tenth, the floor the pair statistics are said to have
MixtureFloor == <<1, 10>>

\* C21: get_all_pair_stats returns exactly one entry per unordered pair
\* (a, b) with 1 <= a < b <= n_classes and no other key, and every entry
\* has alpha >= 0.1 and beta >= 0.1, also for a learner who always answers
\* one class of a pair correctly and the other always wrongly.
C21_PairStatsFloored ==
    (pure.last # None /\ pure.last.op = "pair_stats") =>
        /\ DOMAIN pure.last.stats = AllPairs(N_TONES)
        /\ \A pr \in DOMAIN pure.last.stats :
              /\ ~FracLess(pure.last.stats[pr].alpha, MixtureFloor)
              /\ ~FracLess(pure.last.stats[pr].beta, MixtureFloor)

\* the keys alone: one entry per unordered pair
PairStatsKeys ==
    (pure.last # None /\ pure.last.op = "pair_stats") =>
        DOMAIN pure.last.stats = AllPairs(N_TONES)


\* C22: every drill the legacy sample_next_drill returns has its correct
\* sequence among its alternatives, the fallback of _sample_4_choice (no
\* single-syllable word for any class of the selected four-class set)
\* included
C22_LegacyCorrectAmongAlternatives ==
    (pure.last # None /\ pure.last.service = "tone_drill" /\ pure.last.problem # None) =>
        pure.last.problem.correct_sequence \in Range(pure.last.problem.alternatives)


--------------------------------------------------------------------------
(***************************************************************************)
(* update_confusion_matrix called again and again on one confusion state   *)
(***************************************************************************)
\* number of calls of update_confusion_matrix in a run
MaxLegacyCalls == 3

\* (correct_sequence, selected_sequence) of a call: single-syllable drills
\* answered correctly and wrongly, longer words, a selection shorter than
\* the word, a class 7 (a vowel, no tone), a class 0, an empty selection
LegacyAnswers ==
    { << <<1>>, <<1>> >>, << <<1>>, <<2>> >>, << <<3>>, <<6>> >>,
      << <<2, 5>>, <<2, 4>> >>, << <<2, 5>>, <<2>> >>,
      << <<1, 2, 3, 4>>, <<1, 2, 3, 3>> >>,
      << <<7>>, <<1>> >>, << <<2, 0>>, <<2, 1>> >>, << <<1>>, <<>> >> }

\* the positions of a call that update_confusion_matrix counts
InRangePositions(n, correct_sequence, selected_sequence) ==
    Cardinality({ i \in 1..PyMin(Len(correct_sequence), Len(selected_sequence)) :
                     InRangePosition(n, correct_sequence[i], selected_sequence[i]) })

\* a call for a single-syllable drill, answered with one class
SingleSyllableAnswer(n, correct_sequence, selected_sequence) ==
    /\ Len(correct_sequence) = 1 /\ Len(selected_sequence) = 1
    /\ InRangePosition(n, correct_sequence[1], selected_sequence[1])

InitLegacyMatrix ==
    /\ sessions = [sid \in SessionIds |-> None]
    /\ attempts = <<>>
    /\ catalog = CatalogFull
    /\ hist = [sid \in SessionIds |-> NoHist]
    /\ resp = None
    /\ user_state = <<>>
    /\ proc = None
    /\ \E service \in {"tone", "vowel"} :
          pure = [ service |-> service,
                   confusion_state |-> LegacyInitialState(LegacyClasses(service)),
                   calls |-> 0, positions |-> 0, single_only |-> TRUE ]

\* confusion_state = service.update_confusion_matrix(confusion_state,
\* correct_sequence, selected_sequence)
UpdateConfusionMatrix(correct_sequence, selected_sequence) ==
    /\ pure.calls < MaxLegacyCalls
    /\ pure' = [pure EXCEPT
          !.confusion_state =
              update_confusion_matrix(LegacyClasses(pure.service), @,
                                      correct_sequence, selected_sequence),
          !.calls = @ + 1,
          !.positions = @ + InRangePositions(LegacyClasses(pure.service),
                                             correct_sequence, selected_sequence),
          !.single_only = @ /\ SingleSyllableAnswer(LegacyClasses(pure.service),
                                                   correct_sequence, selected_sequence) ]
    /\ UNCHANGED <<sessions, attempts, catalog, hist, resp, user_state, proc>>

NextLegacyMatrix ==
    \E a \in LegacyAnswers : UpdateConfusionMatrix(a[1], a[2])

SpecLegacyMatrix == InitLegacyMatrix /\ [][NextLegacyMatrix]_vars

\* the sum of all cells over the per-context matrices
ContextTotal(confusion_state) ==
    LET keys == DOMAIN confusion_state.counts_by_context
        RECURSIVE total(_)
        total(ks) == IF ks = {} THEN 0
                     ELSE LET k == CHOOSE x \in ks : TRUE
                          IN  MatrixSum(confusion_state.counts_by_context[k])
                              + total(ks \ {k})
    IN  total(keys)

\* C23: from the all-zero matrix, after k update_confusion_matrix calls for
\* single-syllable drills get_total_attempts is k; in general the sum of the
\* global cells is the number of in-range syllable positions processed and
\* is the sum of all cells of the per-context matrices.
C23_TotalCountsAnswers ==
    /\ pure.single_only => get_total_attempts(pure.confusion_state) = pure.calls
    /\ get_total_attempts(pure.confusion_state) = pure.positions
    /\ get_total_attempts(pure.confusion_state) = ContextTotal(pure.confusion_state)

\* single-syllable answers only, as many as the run allows, a correct and a
\* wrong one among them
C23_Witness ==
    /\ pure.single_only /\ pure.calls = MaxLegacyCalls
    /\ \E i, j \in 1..N_TONES :
          i # j /\ pure.confusion_state.counts[i][j] > 0
                /\ pure.confusion_state.counts[i][i] > 0

\* a four-syllable word has filled the capped context "3-2" twice in a call
LegacyCappedContext ==
    /\ <<3, 2>> \in DOMAIN pure.confusion_state.counts_by_context
    /\ MatrixSum(pure.confusion_state.counts_by_context[<<3, 2>>]) >= 2


--------------------------------------------------------------------------
(***************************************************************************)
(* _sample_problem called with each difficulty level in turn.              *)
(***************************************************************************)
DifficultyLevels == {"2-choice", "mixed", "4-choice-multi"}

InitSampleProblem ==
    /\ sessions = [sid \in SessionIds |-> None]
    /\ attempts = <<>>
    /\ catalog \in SamplerCatalogs
    /\ hist = [sid \in SessionIds |-> NoHist]
    /\ resp = None
    /\ user_state = <<>>
    /\ proc = None
    /\ \E ml \in {ConfusionMLService, LuceMLService(1)}, states \in SamplerStates :
          pure = [ml |-> ml, states |-> states, last |-> None]

SampledLast(difficulty, draw, problem) ==
    [ op |-> "sample", difficulty |-> difficulty, preview |-> draw.preview,
      raised |-> IF "raised" \in DOMAIN problem THEN problem.raised ELSE "",
      problem |-> IF "raised" \in DOMAIN problem THEN None ELSE problem ]

\* self._sample_problem(difficulty, states)
SampleProblem(difficulty, draw) ==
    /\ pure.last = None
    /\ pure' = [pure EXCEPT
          !.last = SampledLast(difficulty, draw,
                               _sample_problem(pure.ml, PROBLEM_TYPES, pure.states,
                                               difficulty, catalog, draw))]
    /\ UNCHANGED <<sessions, attempts, catalog, hist, resp, user_state, proc>>

\* the draws of one sampler: the coin and the shuffle r of the alternatives,
\* the key picked and the attempts of the distractor loop
DrawOf(pick, r, tries) ==
    [ pair |-> 1, coin |-> r % 2 = 0, word |-> r + pick, pick |-> pick,
      shuffle |-> r, remaining |-> r, attempts |-> tries ]

\* attempts of a distractor loop: any first attempt (each syllable kept or
\* redrawn to any other tone), then one changing the first, one the second
\* and one both syllables
AttemptsFrom(a, b) ==
    << <<a, b>>, <<(a % (N_TONES - 1)) + 1, 0>>, <<0, (b % (N_TONES - 1)) + 1>>,
       <<((a + 1) % (N_TONES - 1)) + 1, ((b + 2) % (N_TONES - 1)) + 1>> >>

\* first attempts a run of four-choice drills takes: one changing the first,
\* one the second and one both syllables
FirstAttempts == { <<1, 0>>, <<0, 1>>, <<2, 3>> }

\* every pair or set index with every order of four alternatives (and both
\* coins); every first attempt with either order of two alternatives and
\* either key; every order of four alternatives with some first attempts
SampleProblemDraws ==
    { SampleDraw(pv, h, w, DrawOf(1, r, <<>>)) :
        pv \in BOOLEAN, h \in BOOLEAN, w \in 1..Len(PairList),
        r \in 0..(Factorial(4) - 1) }
    \cup
    { SampleDraw(pv, h, 1, DrawOf(pick, r, AttemptsFrom(a, b))) :
        pv \in BOOLEAN, h \in BOOLEAN, pick \in 0..1, r \in 0..1,
        a \in 0..(N_TONES - 1), b \in 0..(N_TONES - 1) }
    \cup
    { SampleDraw(pv, h, 1, DrawOf(pick, r, AttemptsFrom(t[1], t[2]))) :
        pv \in BOOLEAN, h \in BOOLEAN, pick \in 0..1,
        r \in 0..(Factorial(4) - 1), t \in FirstAttempts }

NextSampleProblem ==
    \E difficulty \in DifficultyLevels, draw \in SampleProblemDraws :
        SampleProblem(difficulty, draw)

SpecSampleProblem == InitSampleProblem /\ [][NextSampleProblem]_vars

\* a drill of k alternatives on a word of syl syllables
DrillShape(problem, k, syl) ==
    /\ Len(problem.alternatives) = k
    /\ Len(problem.correct_sequence) = syl
    /\ problem.problem_type_id = make_problem_type_id("tone", syl)

\* C24: with the full word index _sample_problem emits a drill of the
\* current tier or of the next tier up only: in "2-choice" a two-choice
\* one-syllable drill or (preview) a mixed-tier drill; in "mixed" a
\* four-choice one-syllable or two-choice two-syllable drill or (preview) a
\* four-choice two-syllable drill; in "4-choice-multi" always a four-choice
\* two-syllable drill.
C24_TierOrNextTierUp ==
    (pure.last # None /\ catalog = CatalogFull) =>
        /\ pure.last.raised = ""
        /\ LET p == pure.last.problem
               mixed == DrillShape(p, 4, 1) \/ DrillShape(p, 2, 2)
           IN  CASE pure.last.difficulty = "2-choice" ->
                        IF pure.last.preview THEN mixed ELSE DrillShape(p, 2, 1)
                 [] pure.last.difficulty = "mixed" ->
                        IF pure.last.preview THEN DrillShape(p, 4, 2) ELSE mixed
                 [] OTHER -> DrillShape(p, 4, 2)

\* a preview drawn in "2-choice" has produced a two-choice two-syllable drill
C24_Witness ==
    /\ pure.last # None /\ catalog = CatalogFull
    /\ pure.last.difficulty = "2-choice" /\ pure.last.preview
    /\ DrillShape(pure.last.problem, 2, 2)

\* the top tier has produced a four-choice two-syllable drill
TopTierSampled ==
    /\ pure.last # None /\ catalog = CatalogFull
    /\ pure.last.difficulty = "4-choice-multi"
    /\ DrillShape(pure.last.problem, 4, 2)


--------------------------------------------------------------------------
(***************************************************************************)
(* A learner who answers every single-syllable drill correctly.  The       *)
(* drills take the tones in turn: the tone drilled next is the lowest or   *)
(* the highest of those answered least often so far.                       *)
(***************************************************************************)
\* correct answers per tone in a run; at 26 per tone the predicted
\* four-choice success (C + 1) / (C + 4) reaches 0.90
MaxCorrect == 27

DiagMin(counts) ==
    CHOOSE m \in 0..MaxCorrect :
        /\ \E c \in 1..N_TONES : counts[c][c] = m
        /\ \A c \in 1..N_TONES : counts[c][c] >= m

LeastDrilled(counts) == {c \in 1..N_TONES : counts[c][c] = DiagMin(counts)}

NextInTurn(counts, c) ==
    /\ c \in LeastDrilled(counts)
    /\ \/ \A b \in LeastDrilled(counts) : c <= b
       \/ \A b \in LeastDrilled(counts) : c >= b

InitLearner ==
    /\ sessions = [sid \in SessionIds |-> None]
    /\ attempts = <<>>
    /\ catalog = CatalogFull
    /\ hist = [sid \in SessionIds |-> NoHist]
    /\ resp = None
    /\ user_state = <<>>
    /\ proc = None
    /\ pure = [ ml |-> LuceMLService(1),
                state |-> InitialValue(LuceMLService(1), tone_1) ]

\* the posterior after an answer
LearnerUpdated(r) == pure' = [pure EXCEPT !.state = StateValue(r.heap, r.state)]

\* a drill on tone c answered with tone c:
\* state, _ = ml.update_state(state, problem, answer)
CorrectAnswer(c) ==
    /\ \E o \in {Objects(DictSet(EmptyDict, tone_1, pure.state))} :
       \E r \in {ml_update_state(pure.ml, o.heap, o.objs[tone_1],
                      Problem(tone_1, 0, <<c>>, <<>>), Answer(<<c>>, 0))} :
          LearnerUpdated(r)
    /\ UNCHANGED <<sessions, attempts, catalog, hist, resp, user_state, proc>>

\* the runs explored: the tones in turn, up to MaxCorrect answers per tone
NextLearner ==
    \E c \in 1..N_TONES :
        /\ pure.state.counts[c][c] < MaxCorrect
        /\ NextInTurn(pure.state.counts, c)
        /\ CorrectAnswer(c)

SpecLearner == InitLearner /\ [][NextLearner]_vars

\* service._get_difficulty_level(states[tone_1])
LearnerTier == _get_difficulty_level(pure.ml, PROBLEM_TYPES, pure.state).level

\* every four-class set is mastered: for each of its tones the Luce choice
\* rule over the set gives at least FOUR_CHOICE_MASTERY_THRESHOLD
FourChoiceMastered(state) ==
    \A s \in _get_all_four_choice_sets : \A k \in 1..4 :
        ~FracLess(LuceChoiceRule(state, s[k], Range(s)), FOUR_CHOICE_MASTERY_THRESHOLD)

\* C25: a learner who keeps answering every drill correctly reaches the top
\* tier: after the finitely many correct single-syllable answers that bring
\* every four-class set above FOUR_CHOICE_MASTERY_THRESHOLD (26 per tone:
\* (C + 1) / (C + 4) >= 0.90), _get_difficulty_level returns
\* "4-choice-multi".
C25_TopTierReached ==
    FourChoiceMastered(pure.state) => LearnerTier = "4-choice-multi"

\* no posterior of the learner is in the top tier
TopTierNeverReached == LearnerTier # "4-choice-multi"

\* the success mean _get_difficulty_level compares with the threshold is
\* below 1/2 for every four-class set on every posterior of the learner
FourChoiceMeanBelowHalf ==
    \A s \in _get_all_four_choice_sets : \A k \in 1..4 :
        LET beta == LuceMLService_get_success_distribution(
                        pure.ml, FourChoiceProblem(tone_1, s[k], s), pure.state)
        IN  beta.raised = "" /\ FracLess(beta.p_correct, <<1, 2>>)

\* the learner leaves "2-choice"
MixedReached == LearnerTier = "mixed"


--------------------------------------------------------------------------
(***************************************************************************)
(* The strength cache of the Bradley-Terry service.  State objects live in *)
(* a store (an object is its index), their rows in the heap; the private   *)
(* attribute _cached_strengths of an object is kept beside it.             *)
(* compute_bt_strengths is a function of its arguments and leaves them     *)
(* alone: a strength vector is written as the arguments it was computed    *)
(* from.                                                                   *)
(***************************************************************************)
\* state objects in a run
MaxBtObjects == 4

\* compute_bt_strengths(state.counts, prior=prior)
compute_bt_strengths(wins, prior) == [wins |-> wins, prior |-> prior]

\* a constructor that keeps the cache of the state it copies
CacheOfCopy_kept(cached) == cached

\* BradleyTerryState(..., _cached_strengths=None) in copy_with_pairwise_wins
CacheOfCopy(cached) == None

\* BradleyTerryMLService._compute_strengths on object entry e: the vector
\* returned and the cache the object holds afterwards
_compute_strengths(self, heap, e) ==
    IF e.state.cls = "BradleyTerryState" /\ e.cached # None
    THEN [strengths |-> e.cached, cached |-> e.cached, computed |-> FALSE]
    ELSE LET strengths == compute_bt_strengths(Matrix(heap, e.state.counts),
                                               PriorOf(self, e.state))
         IN  [ strengths |-> strengths,
               cached |-> IF e.state.cls = "BradleyTerryState"
                          THEN strengths ELSE e.cached,
               computed |-> TRUE ]

BtSelections == { <<1>>, <<2>>, <<7>> }

BtProblem == Problem(tone_1, 0, <<1>>, << <<2>>, <<3>>, <<4>> >>)

BtStore(bt, plain) ==
    [ ml |-> BradleyTerryMLService(1),
      heap |-> plain.heap,
      objs |-> << [state |-> bt.obj, cached |-> None],
                  [state |-> plain.obj, cached |-> None] >>,
      last |-> None ]

\* a Bradley-Terry state as get_initial_state returns it and a
\* ConfusionState as a version-1 row deserializes
InitBtCache ==
    /\ sessions = [sid \in SessionIds |-> None]
    /\ attempts = <<>>
    /\ catalog = CatalogFull
    /\ hist = [sid \in SessionIds |-> NoHist]
    /\ resp = None
    /\ user_state = <<>>
    /\ proc = None
    /\ \E bt \in {BradleyTerryMLService_get_initial_state(
                      BradleyTerryMLService(1), PROBLEM_TYPES, <<>>, tone_1)} :
       \E plain \in {ml_get_initial_state(ConfusionMLService, PROBLEM_TYPES, bt.heap,
                                           tone_1)} :
          pure = BtStore(bt, plain)

\* a query (get_success_distribution, get_confusion_probability or
\* get_all_pair_stats): theta = self._compute_strengths(state)
BtQuery(id) ==
    /\ id \in DOMAIN pure.objs
    /\ \E q \in {_compute_strengths(pure.ml, pure.heap, pure.objs[id])} :
          pure' = [pure EXCEPT
             !.objs[id].cached = q.cached,
             !.last = [ op |-> "query", id |-> id, strengths |-> q.strengths,
                        computed |-> q.computed,
                        first |-> pure.objs[id].cached = None ]]
    /\ UNCHANGED <<sessions, attempts, catalog, hist, resp, user_state, proc>>

BtUpdated(id, r) ==
    IF r.raised # ""
    THEN pure' = [pure EXCEPT !.last = [op |-> "update", id |-> id, raised |-> r.raised]]
    ELSE pure' = [pure EXCEPT
            !.heap = r.heap,
            !.objs = Append(@, [state |-> r.state,
                                cached |-> CacheOfCopy(pure.objs[id].cached)]),
            !.last = [ op |-> "update", id |-> id, raised |-> "",
                       new |-> Len(pure.objs) + 1 ]]

\* new_state, _ = ml.update_state(state, problem, answer)
BtUpdate(id, selected_sequence) ==
    /\ id \in DOMAIN pure.objs
    /\ Len(pure.objs) < MaxBtObjects
    /\ \E r \in {BradleyTerryMLService_update_state(pure.ml, pure.heap,
                     pure.objs[id].state, BtProblem, Answer(selected_sequence, 0))} :
          BtUpdated(id, r)
    /\ UNCHANGED <<sessions, attempts, catalog, hist, resp, user_state, proc>>

NextBtCache ==
    \/ \E id \in 1..MaxBtObjects : BtQuery(id)
    \/ \E id \in 1..MaxBtObjects, s \in BtSelections : BtUpdate(id, s)

SpecBtCache == InitBtCache /\ [][NextBtCache]_vars

\* the vector computed from the current counts of object id
CurrentStrengths(id) ==
    compute_bt_strengths(Matrix(pure.heap, pure.objs[id].state.counts),
                         PriorOf(pure.ml, pure.objs[id].state))

\* C26: the strength cache is never stale: a state returned by update_state
\* carries no cached vector, the vector is computed on the first query of a
\* state, and a vector returned by a query is the one computed from the
\* state's current counts, after any interleaving of queries and updates.
C26_StrengthCacheFresh ==
    /\ \A id \in DOMAIN pure.objs :
          pure.objs[id].cached # None => pure.objs[id].cached = CurrentStrengths(id)
    /\ (pure.last # None /\ pure.last.op = "update" /\ pure.last.raised = "") =>
          pure.objs[pure.last.new].cached = None
    /\ (pure.last # None /\ pure.last.op = "query") =>
          /\ pure.last.strengths = CurrentStrengths(pure.last.id)
          /\ pure.last.first => pure.last.computed

\* a state was queried, updated twice, and the second state returned was
\* queried while the first one holds its own vector
C26_Witness ==
    /\ pure.last # None /\ pure.last.op = "query"
    /\ pure.last.id = MaxBtObjects
    /\ \E id \in DOMAIN pure.objs :
          /\ id # pure.last.id
          /\ pure.objs[id].cached # None
          /\ pure.objs[id].cached # pure.last.strengths


--------------------------------------------------------------------------
(***************************************************************************)
(* The tier of the legacy services (tone_drill.py, vowel_drill.py) on      *)
(* matrices with d correct answers per class and e confusions in one cell. *)
(***************************************************************************)
\* correct answers per class and confusions in one cell
MaxLegacyDiag == 18
MaxLegacyOff == 5

LegacyCells == { <<1, 2>>, <<3, 5>> }

LegacyMatrix(n, d, cell, e) ==
    [counts |-> [i \in 1..n |-> [j \in 1..n |->
                    IF i = j THEN d ELSE IF <<i, j>> = cell THEN e ELSE 0]]]

InitLegacyTier ==
    /\ sessions = [sid \in SessionIds |-> None]
    /\ attempts = <<>>
    /\ catalog = CatalogFull
    /\ hist = [sid \in SessionIds |-> NoHist]
    /\ resp = None
    /\ user_state = <<>>
    /\ proc = None
    /\ \E service \in {"tone", "vowel"} :
          \/ pure = [service |-> service, confusion_state |-> None, last |-> None]
          \/ \E d \in 0..MaxLegacyDiag, cell \in LegacyCells, e \in 0..MaxLegacyOff :
                pure = [ service |-> service,
                         confusion_state |->
                             LegacyMatrix(LegacyClasses(service), d, cell, e),
                         last |-> None ]

LegacyLevel(level) ==
    /\ pure.last = None
    /\ pure' = [pure EXCEPT !.last = [op |-> "level", level |-> level]]
    /\ UNCHANGED <<sessions, attempts, catalog, hist, resp, user_state, proc>>

\* ToneDrillService.get_difficulty_level(confusion_state)
ToneLevel ==
    /\ pure.service = "tone"
    /\ LegacyLevel(ToneDrillService_get_difficulty_level(pure.confusion_state))

\* VowelDrillService.get_difficulty_level(confusion_state)
VowelLevel(four_choice) ==
    /\ pure.service = "vowel"
    /\ LegacyLevel(VowelDrillService_get_difficulty_level(pure.confusion_state,
                                                          four_choice))

NextLegacyTier ==
    \/ ToneLevel
    \/ \E four_choice \in VowelDrillService_are_four_choice_sets_mastered(
                               pure.confusion_state) : VowelLevel(four_choice)

SpecLegacyTier == InitLegacyTier /\ [][NextLegacyTier]_vars

\* the gate of a service and whether every pair of the stored matrix has a
\* correct probability of at least 0.80
LegacyMinAttempts ==
    IF pure.service = "tone" THEN MIN_TOTAL_2CHOICE_ATTEMPTS
    ELSE VowelDrill_MIN_TOTAL_2CHOICE_ATTEMPTS

LegacyCounts ==
    IF pure.service = "tone" THEN ToneDrill_counts(pure.confusion_state)
    ELSE VowelDrill_counts(pure.confusion_state)

LegacyPairsAccurate ==
    \A pr \in AllPairs(LegacyClasses(pure.service)) :
        ~PairCorrectBelow(PairErrors(LegacyCounts, pr[1], pr[2]), <<4, 5>>)

\* C27: get_difficulty_level returns "2-choice" whenever the matrix total is
\* below MIN_TOTAL_2CHOICE_ATTEMPTS (100 tone, 200 vowel), whatever the pair
\* accuracies, and returns another tier only when the total has reached the
\* minimum and every pair's correct probability is at least 0.80.
C27_MinimumAttemptsGate ==
    pure.last # None =>
        /\ get_total_attempts(pure.confusion_state) < LegacyMinAttempts =>
              pure.last.level = "2-choice"
        /\ pure.last.level # "2-choice" =>
              /\ get_total_attempts(pure.confusion_state) >= LegacyMinAttempts
              /\ LegacyPairsAccurate

\* every pair is accurate, the total is short of the minimum, and the tier
\* returned is "2-choice"
C27_Witness ==
    /\ pure.last # None /\ pure.confusion_state # None
    /\ LegacyPairsAccurate
    /\ get_total_attempts(pure.confusion_state) < LegacyMinAttempts
    /\ get_total_attempts(pure.confusion_state) > 0
    /\ pure.last.level = "2-choice"

\* the tier has left "2-choice", for the tone and for the vowel service
LegacyTierLeft(service) ==
    pure.last # None /\ pure.service = service /\ pure.last.level # "2-choice"
ToneTierLeft == LegacyTierLeft("tone")
VowelTierLeft == LegacyTierLeft("vowel")


--------------------------------------------------------------------------
(***************************************************************************)
(* Lesson controller: invariants of the lesson state, for a caller that    *)
(* calls the methods in any order (SpecLessonFree).  hist[sid].last_answer *)
(* is "none" from a get_next_drill call to the next record_answer call,    *)
(* and hist[sid].double_answer says that record_answer was called on the   *)
(* lesson twice with no get_next_drill call in between.                    *)
(***************************************************************************)
PhaseRank(phase) ==
    IF phase = LEARNING THEN 1 ELSE IF phase = REVIEW THEN 2 ELSE 3

\* the bounds on the cursors of one LessonState
CursorsInRange(state) ==
    /\ state.current_index <= DRILLS_PER_LESSON
    /\ state.review_index <= Len(state.mistakes)
    /\ Len(state.mistakes) <= state.current_index

\* one step of a session from a to b
LessonStep(a, b) ==
    /\ PhaseRank(b.phase) >= PhaseRank(a.phase)
    /\ a.phase = COMPLETE => b = a
    /\ Len(b.mistakes) >= Len(a.mistakes)
    /\ SubSeq(b.mistakes, 1, Len(a.mistakes)) = a.mistakes
    /\ a.phase # LEARNING => b.mistakes = a.mistakes

\* C28 as stated: every step of a lesson (one LessonState; start_lesson on
\* the same session id begins another lesson) keeps or advances the phase
\* (LEARNING, REVIEW, COMPLETE), leaves a COMPLETE state as it is, keeps the
\* recorded mistakes as a prefix of the new mistake list and adds none
\* outside LEARNING, and leads to a state whose learning cursor is at most
\* DRILLS_PER_LESSON, whose review cursor is at most the number of mistakes
\* and whose number of mistakes is at most the learning cursor.
C28_LessonStateInvariants ==
    [][\A sid \in SessionIds :
          /\ sessions'[sid] # None => CursorsInRange(sessions'[sid])
          /\ (/\ sessions[sid] # None
              /\ sessions'[sid] # None
              /\ hist'[sid].lesson_no = hist[sid].lesson_no) =>
                LessonStep(sessions[sid], sessions'[sid])]_vars

\* C28 amended: the phase never moves backward, COMPLETE is terminal, the
\* mistake list only grows, and only in LEARNING, and the number of mistakes
\* is at most the learning cursor, for any order of calls; the learning
\* cursor is at most DRILLS_PER_LESSON and the review cursor at most the
\* number of mistakes as long as get_next_drill was called between any two
\* record_answer calls on the lesson.
C28_LessonStateInvariantsInTurn ==
    [][\A sid \in SessionIds :
          /\ sessions'[sid] # None =>
                /\ Len(sessions'[sid].mistakes) <= sessions'[sid].current_index
                /\ ~hist'[sid].double_answer => CursorsInRange(sessions'[sid])
          /\ (/\ sessions[sid] # None
              /\ sessions'[sid] # None
              /\ hist'[sid].lesson_no = hist[sid].lesson_no) =>
                LessonStep(sessions[sid], sessions'[sid])]_vars

\* a lesson with mistakes went through review to COMPLETE, each answer
\* followed by a get_next_drill call, and was answered once more after that
C28_Witness ==
    \E sid \in SessionIds :
        /\ sessions[sid] # None
        /\ sessions[sid].phase = COMPLETE
        /\ sessions[sid].current_index = DRILLS_PER_LESSON
        /\ Len(sessions[sid].mistakes) = 2
        /\ sessions[sid].review_index = 2
        /\ hist[sid].answers > DRILLS_PER_LESSON + 2
        /\ ~hist[sid].double_answer

\* a second answer to the last learning drill moves the learning cursor
\* past the plan
CursorPastPlan ==
    \E sid \in SessionIds :
        /\ sessions[sid] # None
        /\ sessions[sid].current_index > DRILLS_PER_LESSON


--------------------------------------------------------------------------
(***************************************************************************)
(* /drill/next with the service singleton in place: _tone_service holds a  *)
(* DrillService and the UserState table holds a posterior of the user for  *)
(* each tone problem type, so that a handler runs past its first statement *)
(* and load_state finds its rows.                                          *)
(***************************************************************************)
\* the ML services the DrillService may hold in self.ml
HandlerServices == {ConfusionMLService, LuceMLService(1)}

\* the rows of user u1: the initial posteriors of the service ml as
\* save_state stores them
StoredPosteriors(ml) ==
    << UserStateRow("u1", tone_1, DumpValue(InitialValue(ml, tone_1))),
       UserStateRow("u1", tone_2, DumpValue(InitialValue(ml, tone_2))) >>

\* last_commit of a table: the state_json committed for each key
CommittedRows(table) ==
    [ key \in {<<table[i].user_id, table[i].problem_type_id>> : i \in DOMAIN table} |->
        table[CHOOSE i \in DOMAIN table :
                    <<table[i].user_id, table[i].problem_type_id>> = key].state_json ]

InitDrillHandler ==
    /\ sessions = [sid \in ApiSessionIds |-> None]
    /\ attempts = <<>>
    /\ catalog = CatalogFull
    /\ hist = [sid \in ApiSessionIds |-> None]
    /\ resp = None
    /\ \E ml \in HandlerServices, origin \in HandlerServices :
          /\ user_state = StoredPosteriors(origin)
          /\ proc = [InitProc EXCEPT
                        !.tone_service = ml,
                        !.last_commit = CommittedRows(StoredPosteriors(origin))]
          /\ pure = [stored |-> StoredPosteriors(origin)]

NextDrillHandler ==
    \/ \E p \in Requests, u \in UserIds, pa \in PreviousAnswers \cup {None} :
          BeginRequest(p, "drill_next", u, None, pa)
    \/ \E p \in Requests, u \in UserIds, sid \in ApiSessionIds, a \in LessonAnswers :
          BeginRequest(p, "lesson_next", u, sid, a)
    \/ \E p \in Requests : Handler(p)

SpecDrillHandler == InitDrillHandler /\ [][NextDrillHandler]_vars

\* the requests of the run were handled one after the other and have ended
HandledInTurn ==
    /\ proc # None /\ DOMAIN sessions = ApiSessionIds
    /\ pure # None /\ "stored" \in DOMAIN pure
    /\ ~proc.overlap
    /\ \A p \in Requests : proc.req[p].pc = "idle"

\* an attempt of the user for the problem type is in the log
Logged(user_id, problem_type_id) ==
    \E k \in 1..Len(attempts) :
        /\ attempts[k].user_id = user_id
        /\ attempts[k].problem_type_id = problem_type_id

\* the posterior stored for the user and the type holds an observation
\* that the row did not hold at the start
Absorbed(user_id, problem_type_id) ==
    \E i \in SelectUserState(user_state, user_id, problem_type_id) :
        Observations(user_state[i].state_json) >
            IF i \in DOMAIN pure.stored THEN Observations(pure.stored[i].state_json)
            ELSE 0

\* the problem types a previous answer may name
AnsweredTypes == { pa.problem_type_id : pa \in PreviousAnswers }

LoggedNotAbsorbed ==
    /\ HandledInTurn
    /\ resp # None /\ resp.endpoint = "drill_next" /\ resp.status = 500
    /\ resp.error = "IndexError"
    /\ Logged("u1", tone_1)
    /\ user_state = pure.stored

\* an answer is in the log and in the stored posterior
LoggedAndAbsorbed ==
    /\ HandledInTurn
    /\ Logged("u1", tone_1) /\ Absorbed("u1", tone_1)


--------------------------------------------------------------------------
(***************************************************************************)
(* The HTTP API: which request writes which stored posterior               *)
(***************************************************************************)
\* the counts of the posterior stored for the user and the type; without a
\* row no answer is counted
StoredCounts(table, user_id, problem_type_id) ==
    LET found == SelectUserState(table, user_id, problem_type_id)
        n == get_problem_type(PROBLEM_TYPES, problem_type_id).config.n_classes
    IN  IF found = {} THEN [i \in 1..n |-> [j \in 1..n |-> 0]]
        ELSE table[CHOOSE i \in found : TRUE].state_json.counts

\* the request p takes the step and carries an answer of the user for the type
AnsweringStep(p, user_id, problem_type_id) ==
    /\ proc'.req[p] # proc.req[p]
    /\ proc.req[p].endpoint = "drill_next"
    /\ proc.req[p].user_id = user_id
    /\ proc.req[p].body # None
    /\ proc.req[p].body.problem_type_id = problem_type_id

OwnTypeWritten ==
    /\ proc # None /\ pure # None /\ "stored" \in DOMAIN pure
    /\ StoredCounts(user_state, "u1", tone_2) # StoredCounts(pure.stored, "u1", tone_2)
    /\ StoredCounts(user_state, "u1", tone_1) = StoredCounts(pure.stored, "u1", tone_1)

==========================================================================
